---- MODULE Spec2Model ----
(***************************************************************************)
(* Beddel Protocol workflow engine: the sequential WorkflowExecutor, the   *)
(* handler registry, the variable resolver and the trace-event sanitizer.  *)
(*                                                                         *)
(* JavaScript strings are sequences of one-character strings, so that     *)
(* includes / startsWith / slice / toLowerCase are computed, not assumed.  *)
(* JavaScript values are tagged records (field k is the typeof-like tag).  *)
(***************************************************************************)
EXTENDS Integers, Sequences, FiniteSets, TLC

VARIABLES
    handlerRegistry,  \* ordered entries <<type, handler>>: Record<string, PrimitiveHandler>
    yaml,             \* [call -> ParsedYaml given to the constructor]
    executor,         \* [call -> WorkflowExecutor fields steps/returnTemplate/observabilityEnabled]
    pc,               \* [call -> position inside execute()]
    context,          \* [call -> ExecutionContext {input, variables, trace}]
    stepIndex,        \* [call -> loop variable i]
    lastResult,       \* [call -> lastResult]
    startTime,        \* [call -> startTime of the step being awaited]
    outcome,          \* [call -> what execute() settled with]
    invoked,          \* [call -> history of handler invocations <<i, handler>>]
    settled,          \* [call -> history of settled handler promises <<i, kind, value>>]
    now,              \* the clock read by Date.now()
    thrown,           \* sanitizer harness: the value handed to sanitizeErrorType
    classified,       \* sanitizer harness: the errorType computed for it
    registered,       \* history: [type -> handler of the latest registerPrimitive(type, handler)]
    request,          \* function harness: the arguments of the call under study
    reply,            \* function harness: what the call settled with
    frames,           \* [call -> the executions suspended in a call-agent step, outermost first]
    pushFails,        \* whether context.trace.push throws at present
    provider,         \* TenantManager.provider: null or a provider with its tenants
    tenantConfigs,    \* TenantManager.tenantConfigs: the ids that have a stored config
    initialized       \* history: tenants initialized with success and not removed since

execVars == <<yaml, executor, pc, context, stepIndex, lastResult, startTime,
              outcome, invoked, settled, now>>
sanVars == <<thrown, classified>>
pureVars == <<request, reply>>
agentVars == <<frames, pushFails>>
tenantVars == <<provider, tenantConfigs, initialized>>
vars == <<handlerRegistry, registered, execVars, sanVars, pureVars, agentVars, tenantVars>>

----------------------------------------------------------------------------
(* Bounds of the model *)

MaxSteps == 2

----------------------------------------------------------------------------
(* JavaScript strings *)

UpperCase == <<"A","B","C","D","E","F","G","H","I","J","K","L","M","N","O","P","Q","R","S","T","U","V","W","X","Y","Z">>
LowerCase == <<"a","b","c","d","e","f","g","h","i","j","k","l","m","n","o","p","q","r","s","t","u","v","w","x","y","z">>

ToLowerChar(c) ==
    IF \E n \in 1..Len(UpperCase) : UpperCase[n] = c
    THEN LowerCase[CHOOSE n \in 1..Len(UpperCase) : UpperCase[n] = c]
    ELSE c

toLowerCase(s) == [n \in 1..Len(s) |-> ToLowerChar(s[n])]

includes(s, sub) ==
    \E n \in 0..(Len(s) - Len(sub)) : SubSeq(s, n + 1, n + Len(sub)) = sub

startsWith(s, pre) == Len(pre) <= Len(s) /\ SubSeq(s, 1, Len(pre)) = pre

\* s.slice(n), n counted from 0
sliceFrom(s, n) == SubSeq(s, n + 1, Len(s))

\* s.slice(0, n)
sliceTo(s, n) == SubSeq(s, 1, n)

\* s.indexOf(c) for a one-character c; -1 when absent
indexOf(s, c) ==
    IF \E n \in 1..Len(s) : s[n] = c
    THEN (CHOOSE n \in 1..Len(s) : s[n] = c /\ \A m \in 1..(n - 1) : s[m] # c) - 1
    ELSE -1

RECURSIVE join(_, _)
join(strs, sep) ==
    IF Len(strs) = 0 THEN << >>
    ELSE IF Len(strs) = 1 THEN strs[1]
    ELSE strs[1] \o sep \o join(Tail(strs), sep)

----------------------------------------------------------------------------
(* JavaScript values *)

Undefined == [k |-> "undefined"]
Null == [k |-> "null"]
Str(s) == [k |-> "string", s |-> s]
Num(n) == [k |-> "number", n |-> n]
Bool(b) == [k |-> "boolean", b |-> b]
Arr(a) == [k |-> "array", a |-> a]
Obj(o) == [k |-> "object", o |-> o]
ResponseObj(n) == [k |-> "response", id |-> n]
ErrorObj(name, message) == [k |-> "error", name |-> name, message |-> message]

\* result instanceof Response
IsResponse(v) == v.k = "response"

\* error instanceof Error
IsError(v) == v.k = "error"

----------------------------------------------------------------------------
(* Trace-event sanitizer *)

ErrorTypes == {"timeout", "auth_failed", "validation", "network", "unknown"}

\* the message and the class name of a thrown value, as far as it has them
MessageOf(v) ==
    IF IsError(v) THEN v.message
    ELSE IF v.k = "object" /\ (<<"m","e","s","s","a","g","e">>) \in DOMAIN v.o /\ v.o[<<"m","e","s","s","a","g","e">>].k = "string"
    THEN v.o[<<"m","e","s","s","a","g","e">>].s
    ELSE << >>

NameOf(v) == IF IsError(v) THEN v.name ELSE << >>

\* fault injection: every category is matched on the message and on the class name alike
sanitizeErrorTypeByMessageOrName(error) ==
    LET either(sub) == \/ includes(toLowerCase(MessageOf(error)), sub)
                       \/ includes(toLowerCase(NameOf(error)), sub)
    IN  IF either(<<"t","i","m","e","o","u","t">>) THEN "timeout"
        ELSE IF either(<<"a","u","t","h">>) \/ either(<<"u","n","a","u","t","h","o","r","i","z","e","d">>) THEN "auth_failed"
        ELSE IF either(<<"v","a","l","i","d">>) \/ either(<<"v","a","l","i","d","a","t","i","o","n">>) THEN "validation"
        ELSE IF either(<<"n","e","t","w","o","r","k">>) \/ either(<<"e","c","o","n","n","r","e","f","u","s","e","d">>) THEN "network"
        ELSE "unknown"

sanitizeErrorType(error) ==
    IF IsError(error)
    THEN LET msg == toLowerCase(error.message)
             name == toLowerCase(error.name)
         IN  IF includes(msg, <<"t","i","m","e","o","u","t">>) \/ includes(name, <<"t","i","m","e","o","u","t">>) THEN "timeout"
             ELSE IF includes(msg, <<"a","u","t","h">>) \/ includes(msg, <<"u","n","a","u","t","h","o","r","i","z","e","d">>) THEN "auth_failed"
             ELSE IF includes(msg, <<"v","a","l","i","d">>) \/ includes(name, <<"v","a","l","i","d","a","t","i","o","n">>) THEN "validation"
             ELSE IF includes(msg, <<"n","e","t","w","o","r","k">>) \/ includes(msg, <<"e","c","o","n","n","r","e","f","u","s","e","d">>) THEN "network"
             ELSE "unknown"
    ELSE "unknown"

ErrorNames ==
    { <<"E","r","r","o","r">>, <<"T","i","m","e","o","u","t","E","r","r","o","r">>, <<"A","u","t","h","E","r","r","o","r">>, <<"V","a","l","i","d","a","t","i","o","n","E","r","r","o","r">>,
      <<"I","n","v","a","l","i","d","A","r","g","u","m","e","n","t","E","r","r","o","r">>, <<"N","e","t","w","o","r","k","E","r","r","o","r">>, <<"T","y","p","e","E","r","r","o","r">> }

ErrorMessages ==
    { <<"b","o","o","m">>, <<"R","e","q","u","e","s","t"," ","T","i","m","e","o","u","t">>, <<"t","i","m","e","o","u","t">>, <<"A","U","T","H"," ","r","e","q","u","i","r","e","d">>, <<"4","0","1"," ","U","n","a","u","t","h","o","r","i","z","e","d">>,
      <<"i","n","v","a","l","i","d"," ","i","n","p","u","t">>, <<"V","a","l","i","d","a","t","i","o","n"," ","f","a","i","l","e","d">>, <<"N","e","t","w","o","r","k"," ","d","o","w","n">>, <<"c","o","n","n","e","c","t"," ","E","C","O","N","N","R","E","F","U","S","E","D"," ","1","2","7",".","0",".","0",".","1">>,
      <<"a","u","t","h","o","r"," ","m","i","s","s","i","n","g"," ","t","i","m","e","o","u","t">>, <<"i","n","v","a","l","i","d"," ","a","u","t","h"," ","t","o","k","e","n">>, <<"n","e","t","w","o","r","k"," ","v","a","l","i","d","a","t","i","o","n">>, <<>> }

\* what a handler may throw: Error instances, and values that are not Errors
SanitizerInputs ==
    { ErrorObj(n, m) : n \in ErrorNames, m \in ErrorMessages }
        \cup { Str(<<"t","i","m","e","o","u","t">>), Str(<<"n","e","t","w","o","r","k">>), Undefined, Null,
               Obj((<<"m","e","s","s","a","g","e">>) :> Str(<<"t","i","m","e","o","u","t">>)) }

SanInit ==
    /\ thrown \in SanitizerInputs
    /\ classified = "none"

Classify ==
    /\ classified = "none"
    /\ classified' = sanitizeErrorType(thrown)
    /\ UNCHANGED thrown


----------------------------------------------------------------------------
(* Variable resolver *)

Digits == <<"0","1","2","3","4","5","6","7","8","9">>
IdentStart == { LowerCase[n] : n \in 1..26 } \cup { UpperCase[n] : n \in 1..26 } \cup {"_"}
IdentChar == IdentStart \cup { Digits[n] : n \in 1..10 }

\* process.env
ProcessEnv == (<<"A","P","I","_","K","E","Y">>) :> <<"s","k","1">>

RECURSIVE NatToStr(_)
NatToStr(n) ==
    IF n < 10 THEN <<Digits[n + 1]>>
    ELSE NatToStr(n \div 10) \o <<Digits[(n % 10) + 1]>>

\* the array index a property key denotes, or -1
ArrayIndex(part) ==
    IF Len(part) = 1 /\ \E n \in 1..10 : Digits[n] = part[1]
    THEN (CHOOSE n \in 1..10 : Digits[n] = part[1]) - 1
    ELSE -1

\* properties every object inherits from Object.prototype / Array.prototype
InheritedKeys == { <<"c","o","n","s","t","r","u","c","t","o","r">>, <<"t","o","S","t","r","i","n","g">>, <<"v","a","l","u","e","O","f">>, <<"h","a","s","O","w","n","P","r","o","p","e","r","t","y">> }
Function(name) == [k |-> "function", name |-> name]

\* (current as Record<string, unknown>)[part] for a non-null typeof 'object' value
GetProp(current, part) ==
    IF current.k = "object"
    THEN IF part \in DOMAIN current.o THEN current.o[part]
         ELSE IF part \in InheritedKeys THEN Function(part)
         ELSE Undefined
    ELSE IF current.k = "array"
    THEN IF ArrayIndex(part) >= 0 /\ ArrayIndex(part) < Len(current.a)
         THEN current.a[ArrayIndex(part) + 1]
         ELSE IF part = <<"l","e","n","g","t","h">> THEN Num(Len(current.a))
         ELSE IF part \in InheritedKeys THEN Function(part)
         ELSE Undefined
    ELSE Undefined

TypeofObject(v) == v.k \in {"object", "array", "response", "error"}

\* path.split('.')
RECURSIVE split(_)
split(path) ==
    LET d == indexOf(path, ".")
    IN  IF d = -1 THEN <<path>>
        ELSE <<sliceTo(path, d)>> \o split(sliceFrom(path, d + 1))

RECURSIVE walk(_, _)
walk(current, parts) ==
    IF Len(parts) = 0 THEN current
    ELSE IF current.k \in {"null", "undefined"} THEN Undefined
    ELSE IF TypeofObject(current) THEN walk(GetProp(current, Head(parts)), Tail(parts))
    ELSE Undefined

resolvePath(obj, path) == walk(obj, split(path))

\* context.variables.get(name)
MapGet(variables, name) ==
    IF name \in DOMAIN variables THEN variables[name] ELSE Undefined

\* String(value)
RECURSIVE String(_)
String(v) ==
    CASE v.k = "string" -> v.s
      [] v.k = "number" -> IF v.n < 0 THEN <<"-">> \o NatToStr(0 - v.n) ELSE NatToStr(v.n)
      [] v.k = "boolean" -> IF v.b THEN <<"t","r","u","e">> ELSE <<"f","a","l","s","e">>
      [] v.k = "null" -> <<"n","u","l","l">>
      [] v.k = "undefined" -> <<"u","n","d","e","f","i","n","e","d">>
      [] v.k = "object" -> <<"[","o","b","j","e","c","t"," ","O","b","j","e","c","t","]">>
      [] v.k = "response" -> <<"[","o","b","j","e","c","t"," ","R","e","s","p","o","n","s","e","]">>
      [] v.k = "error" -> IF v.message = << >> THEN v.name ELSE v.name \o <<":"," ">> \o v.message
      [] v.k = "function" -> <<"f","u","n","c","t","i","o","n"," ">> \o v.name \o <<"(",")"," ","{"," ","[","n","a","t","i","v","e"," ","c","o","d","e","]"," ","}">>
      [] v.k = "array" ->
            join([n \in 1..Len(v.a) |->
                    IF v.a[n].k \in {"null", "undefined"} THEN << >> ELSE String(v.a[n])],
                 <<",">>)

\* a variable name optionally followed by a path: "name" or "name.rest"
LookupVariable(variables, fullPath) ==
    LET dotIndex == indexOf(fullPath, ".")
    IN  IF dotIndex = -1 THEN MapGet(variables, fullPath)
        ELSE resolvePath(MapGet(variables, sliceTo(fullPath, dotIndex)),
                         sliceFrom(fullPath, dotIndex + 1))

\* the replace callback of interpolateVariables, for one match "$" + fullPath
Replacement(fullPath, ctx) ==
    LET match == <<"$">> \o fullPath
        keep(value) == IF value # Undefined THEN String(value) ELSE match
    IN  IF startsWith(fullPath, <<"e","n","v",".">>)
        THEN IF sliceFrom(fullPath, 4) \in DOMAIN ProcessEnv
             THEN ProcessEnv[sliceFrom(fullPath, 4)] ELSE match
        ELSE IF startsWith(fullPath, <<"i","n","p","u","t",".">>)
        THEN keep(resolvePath(ctx.input, sliceFrom(fullPath, 6)))
        ELSE IF startsWith(fullPath, <<"s","t","e","p","R","e","s","u","l","t",".">>)
        THEN keep(LookupVariable(ctx.variables, sliceFrom(fullPath, 11)))
        ELSE keep(LookupVariable(ctx.variables, fullPath))

\* length of the identifier [a-zA-Z_][a-zA-Z0-9_]* at the front of s, 0 if none
RECURSIVE IdentTail(_)
IdentTail(s) ==
    IF Len(s) > 0 /\ s[1] \in IdentChar THEN 1 + IdentTail(Tail(s)) ELSE 0

IdentLen(s) ==
    IF Len(s) > 0 /\ s[1] \in IdentStart THEN 1 + IdentTail(Tail(s)) ELSE 0

\* length of ident(\.ident)* at the front of s, 0 if none
RECURSIVE PathLen(_)
PathLen(s) ==
    LET n == IdentLen(s)
    IN  IF n = 0 THEN 0
        ELSE IF Len(s) > n /\ s[n + 1] = "." /\ IdentLen(sliceFrom(s, n + 1)) > 0
        THEN n + 1 + PathLen(sliceFrom(s, n + 1))
        ELSE n

\* template.replace(variablePattern, callback)
RECURSIVE interpolate(_, _)
interpolate(template, ctx) ==
    IF Len(template) = 0 THEN << >>
    ELSE IF template[1] = "$" /\ PathLen(Tail(template)) > 0
    THEN LET n == PathLen(Tail(template))
         IN  Replacement(SubSeq(template, 2, n + 1), ctx)
                 \o interpolate(sliceFrom(template, n + 1), ctx)
    ELSE <<template[1]>> \o interpolate(Tail(template), ctx)

interpolateVariables(template, ctx) == interpolate(template, ctx)

NoWhitespace(s) == ~includes(s, <<" ">>) /\ ~includes(s, <<"\n">>)

\* fault injection: no legacy branch, "$name.path" is left to interpolation
resolveStringWithoutLegacy(template, ctx) ==
    IF startsWith(template, <<"$","e","n","v",".">>) /\ NoWhitespace(template)
    THEN IF sliceFrom(template, 5) \in DOMAIN ProcessEnv
         THEN Str(ProcessEnv[sliceFrom(template, 5)]) ELSE Undefined
    ELSE IF startsWith(template, <<"$","i","n","p","u","t",".">>) /\ NoWhitespace(template)
    THEN resolvePath(ctx.input, sliceFrom(template, 7))
    ELSE IF startsWith(template, <<"$","s","t","e","p","R","e","s","u","l","t",".">>) /\ NoWhitespace(template)
    THEN LookupVariable(ctx.variables, sliceFrom(template, 12))
    ELSE IF includes(template, <<"$">>)
    THEN Str(interpolateVariables(template, ctx))
    ELSE Str(template)

resolveString(template, ctx) ==
    IF startsWith(template, <<"$","e","n","v",".">>) /\ NoWhitespace(template)
    THEN IF sliceFrom(template, 5) \in DOMAIN ProcessEnv
         THEN Str(ProcessEnv[sliceFrom(template, 5)]) ELSE Undefined
    ELSE IF startsWith(template, <<"$","i","n","p","u","t",".">>) /\ NoWhitespace(template)
    THEN resolvePath(ctx.input, sliceFrom(template, 7))
    ELSE IF startsWith(template, <<"$","s","t","e","p","R","e","s","u","l","t",".">>) /\ NoWhitespace(template)
    THEN LookupVariable(ctx.variables, sliceFrom(template, 12))
    ELSE IF startsWith(template, <<"$">>) /\ ~startsWith(template, <<"$","$">>) /\ NoWhitespace(template)
    THEN LookupVariable(ctx.variables, sliceFrom(template, 1))
    ELSE IF includes(template, <<"$">>)
    THEN Str(interpolateVariables(template, ctx))
    ELSE Str(template)

RECURSIVE resolveVariables(_, _)
resolveVariables(template, ctx) ==
    CASE template.k \in {"null", "undefined"} -> template
      [] template.k = "string" -> resolveString(template.s, ctx)
      [] template.k = "array" ->
            Arr([n \in 1..Len(template.a) |-> resolveVariables(template.a[n], ctx)])
      [] template.k = "object" ->
            Obj([key \in DOMAIN template.o |-> resolveVariables(template.o[key], ctx)])
      [] OTHER -> template

----------------------------------------------------------------------------
(* Manifests: the ParsedYaml documents an executor is constructed from *)

CallIds == {1, 2}

\* JavaScript truthiness, as in `if (step.result)` and `&& lastResult`
Truthy(v) ==
    CASE v.k \in {"undefined", "null"} -> FALSE
      [] v.k = "string" -> Len(v.s) > 0
      [] v.k = "number" -> v.n # 0
      [] v.k = "boolean" -> v.b
      [] OTHER -> TRUE

StepId(n) == <<"s">> \o NatToStr(n)

StepTypes == { <<"l","l","m">>, <<"c","h","a","t">>, <<"c","u","s","t","o","m">> }

ResultNames == { Undefined, Str(<<"a">>), Str(<<"b">>) }

ConfigA == Obj((<<"m","o","d","e","l">>) :> Str(<<"m","1">>))
ConfigB == Obj((<<"m","o","d","e","l">>) :> Str(<<"m","2">>) @@ (<<"s","y","s","t","e","m">>) :> Str(<<"b","e"," ","b","r","i","e","f">>))

\* workflows of exactly n steps; step ids are unique (validated at load time)
Workflows(n, configs) ==
    { w \in [1..n -> [id : { StepId(m) : m \in 1..n }, type : StepTypes,
                      config : configs, result : ResultNames]] :
        \A m \in 1..n : w[m].id = StepId(m) }

ObservabilitySettings ==
    { Undefined,
      Obj((<<"e","n","a","b","l","e","d">>) :> Bool(TRUE)),
      Obj((<<"e","n","a","b","l","e","d">>) :> Str(<<"t","r","u","e">>)),
      Obj((<<"e","n","a","b","l","e","d">>) :> Bool(FALSE)) }

ReturnTemplates ==
    { Undefined,
      Obj((<<"o","k">>) :> Bool(TRUE) @@ (<<"v">>) :> Str(<<"$","s","t","e","p","R","e","s","u","l","t",".","a",".","t","e","x","t">>)),
      Str(<<"g","o","t"," ","$","b",".","t","e","x","t">>) }

Manifests(configs) ==
    { [metadata |-> [name |-> <<"T","e","s","t">>, version |-> <<"1">>, observability |-> o],
       workflow |-> w, return |-> r] :
        o \in ObservabilitySettings,
        w \in UNION { Workflows(n, configs) : n \in 0..MaxSteps },
        r \in ReturnTemplates }

Inputs == { Obj((<<"m","e","s","s","a","g","e","s">>) :> Arr(<<Obj((<<"r","o","l","e">>) :> Str(<<"u","s","e","r">>) @@ (<<"c","o","n","t","e","n","t">>) :> Str(<<"H","i">>))>>)) }

----------------------------------------------------------------------------
(* Handler registry *)

BuiltinRegistry ==
    << [type |-> <<"c","h","a","t">>, handler |-> "chatPrimitive"],
       [type |-> <<"l","l","m">>, handler |-> "llmPrimitive"],
       [type |-> <<"o","u","t","p","u","t","-","g","e","n","e","r","a","t","o","r">>, handler |-> "outputPrimitive"],
       [type |-> <<"c","a","l","l","-","a","g","e","n","t">>, handler |-> "callAgentPrimitive"],
       [type |-> <<"m","c","p","-","t","o","o","l">>, handler |-> "mcpToolPrimitive"],
       [type |-> <<"g","o","o","g","l","e","-","b","u","s","i","n","e","s","s">>, handler |-> "googleBusinessPrimitive"] >>

\* Object.keys(handlerRegistry)
RegistryKeys(reg) == [n \in 1..Len(reg) |-> reg[n].type]

HasKey(reg, type) == \E n \in 1..Len(reg) : reg[n].type = type

\* fault injection: an unknown type falls back to the llm handler
LookupOrDefault(reg, type) ==
    IF HasKey(reg, type)
    THEN reg[CHOOSE n \in 1..Len(reg) : reg[n].type = type].handler
    ELSE "llmPrimitive"

\* handlerRegistry[type]; "none" stands for undefined
Lookup(reg, type) ==
    IF HasKey(reg, type)
    THEN reg[CHOOSE n \in 1..Len(reg) : reg[n].type = type].handler
    ELSE "none"

\* fault injection: a type that is already registered keeps its handler
AssignIfAbsent(reg, type, handler) ==
    IF HasKey(reg, type) THEN reg
    ELSE Append(reg, [type |-> type, handler |-> handler])

\* handlerRegistry[type] = handler: an existing key keeps its position
Assign(reg, type, handler) ==
    IF HasKey(reg, type)
    THEN [n \in 1..Len(reg) |->
            IF reg[n].type = type THEN [type |-> type, handler |-> handler] ELSE reg[n]]
    ELSE Append(reg, [type |-> type, handler |-> handler])

RegisterableTypes == { <<"c","u","s","t","o","m">> }
RegisterableHandlers == { "mockHandler" }

registerPrimitive(type, handler) ==
    /\ handlerRegistry' = Assign(handlerRegistry, type, handler)
    /\ registered' = (type :> handler) @@ registered
    /\ UNCHANGED <<execVars, sanVars, pureVars, agentVars, tenantVars>>

----------------------------------------------------------------------------
(* What handlers do *)

\* llm resolves with {text, usage}
LlmRecords ==
    { Obj((<<"t","e","x","t">>) :> Str(<<"h","i">>) @@ (<<"u","s","a","g","e">>) :> Obj(<< >>)),
      Obj((<<"t","e","x","t">>) :> Str(<<"d","o","n","e">>) @@ (<<"u","s","a","g","e">>) :> Obj(<< >>)) }

\* a custom handler resolves with any record, e.g. the result of a traced sub-agent
CustomRecords ==
    { Obj((<<"t","e","x","t">>) :> Str(<<"h","i">>)),
      Obj((<<"r","e","s","u","l","t">>) :> Str(<<"d","o","n","e">>) @@
          (<<"_","_","t","r","a","c","e">>) :> Arr(<<[type |-> "step-start", stepId |-> <<"s","u","b">>, stepType |-> <<"l","l","m">>,
                               stepIndex |-> 0, totalSteps |-> 1, timestamp |-> 0]>>)) }

\* llm output that carries JSON text, as a structured-output prompt produces
JsonTextRecords ==
    { Obj((<<"t","e","x","t">>) :> Str(<<"{","\"","t","a","g","s","\"",":"," ","[","1","]","}">>) @@ (<<"u","s","a","g","e">>) :> Obj(<< >>)) }

\* the records a handler may resolve with; output-generator computes its own
HandlerRecords(handler) ==
    IF handler \in {"chatPrimitive", "outputPrimitive"} THEN {}
    ELSE IF handler = "llmPrimitive" THEN LlmRecords \cup JsonTextRecords
    ELSE CustomRecords

ThrownValues ==
    { ErrorObj(<<"E","r","r","o","r">>, <<"c","o","n","n","e","c","t"," ","E","C","O","N","N","R","E","F","U","S","E","D"," ","1","2","7",".","0",".","0",".","1">>),
      ErrorObj(<<"T","i","m","e","o","u","t","E","r","r","o","r">>, <<"b","o","o","m">>),
      Str(<<"t","i","m","e","o","u","t">>) }

\* milliseconds that pass while a handler's promise is pending
Elapsed == {0, 1}
SteadyElapsed == {1}

\* chat always streams; llm never streams; a custom handler may do either
ReturnsResponse(handler) == handler \in {"chatPrimitive", "callAgentPrimitive", "mockHandler"}

----------------------------------------------------------------------------
(* Output primitive: JSON extraction and parsing (texts without escape      *)
(* sequences, fractions or exponents), then the template transform         *)

WhiteSpace == {" ", "\n", "\t", "\r"}

RECURSIVE trimStart(_)
trimStart(s) == IF Len(s) > 0 /\ s[1] \in WhiteSpace THEN trimStart(Tail(s)) ELSE s

RECURSIVE trimEnd(_)
trimEnd(s) ==
    IF Len(s) > 0 /\ s[Len(s)] \in WhiteSpace THEN trimEnd(SubSeq(s, 1, Len(s) - 1)) ELSE s

\* String.prototype.trim
trim(s) == trimEnd(trimStart(s))

\* s.indexOf(sub, from), counted from 0, -1 if absent
indexOfFrom(s, sub, from) ==
    LET hits == { n \in from..(Len(s) - Len(sub)) : SubSeq(s, n + 1, n + Len(sub)) = sub }
    IN  IF hits = {} THEN -1 ELSE CHOOSE n \in hits : \A m \in hits : n <= m

\* s.lastIndexOf(c), counted from 0, -1 if absent
lastIndexOf(s, c) ==
    LET hits == { n \in 0..(Len(s) - 1) : s[n + 1] = c }
    IN  IF hits = {} THEN -1 ELSE CHOOSE n \in hits : \A m \in hits : n >= m

\* the backquote character (it cannot be written inside a string of a module)
Backquote == "backquote"
Fence == <<Backquote, Backquote, Backquote>>

\* the first fenced code block of the text, with or without the json tag:
\* [found, body], body being what stands between the fences
codeBlockMatch(text) ==
    LET open == indexOfFrom(text, Fence, 0)
        tagged == open # -1 /\ startsWith(sliceFrom(text, open + 3), <<"j","s","o","n">>)
        rest == sliceFrom(text, IF tagged THEN open + 7 ELSE open + 3)
        body == trimStart(rest)
        close == indexOfFrom(body, Fence, 0)
    IN  IF open = -1 \/ close = -1 THEN [found |-> FALSE]
        ELSE [found |-> TRUE, body |-> sliceTo(body, close)]

\* the leftmost opening brace with a later closing brace, or opening bracket
\* with a later closing bracket, up to the last such closing character
jsonMatch(text) ==
    LET closer(c) == IF c = "{" THEN "}" ELSE "]"
        starts == { n \in 0..(Len(text) - 1) :
                      /\ text[n + 1] \in {"{", "["}
                      /\ lastIndexOf(text, closer(text[n + 1])) > n }
        first == CHOOSE n \in starts : \A m \in starts : n <= m
    IN  IF starts = {} THEN [found |-> FALSE]
        ELSE [found |-> TRUE,
              body |-> SubSeq(text, first + 1, lastIndexOf(text, closer(text[first + 1])) + 1)]

extractJson(text) ==
    IF codeBlockMatch(text).found THEN trim(codeBlockMatch(text).body)
    ELSE IF jsonMatch(text).found THEN trim(jsonMatch(text).body)
    ELSE trim(text)

RECURSIVE skipWs(_, _)
skipWs(s, i) == IF i <= Len(s) /\ s[i] \in WhiteSpace THEN skipWs(s, i + 1) ELSE i

SyntaxError == [ok |-> FALSE]
Parsed(v, next) == [ok |-> TRUE, value |-> v, next |-> next]

IsDigit(c) == \E n \in 1..10 : Digits[n] = c
DigitValue(c) == (CHOOSE n \in 1..10 : Digits[n] = c) - 1

RECURSIVE NatOf(_)
NatOf(s) == IF Len(s) = 0 THEN 0 ELSE 10 * NatOf(SubSeq(s, 1, Len(s) - 1)) + DigitValue(s[Len(s)])

RECURSIVE digitsEnd(_, _)
digitsEnd(s, i) == IF i <= Len(s) /\ IsDigit(s[i]) THEN digitsEnd(s, i + 1) ELSE i

\* a string token whose opening quote is s[i]
parseString(s, i) ==
    LET quotes == { j \in (i + 1)..Len(s) : s[j] = "\"" }
        j == CHOOSE q \in quotes : \A r \in quotes : q <= r
    IN  IF quotes = {} THEN SyntaxError
        ELSE IF \E n \in (i + 1)..(j - 1) : s[n] \in {"\\", "\n", "\t", "\r"} THEN SyntaxError
        ELSE Parsed(Str(SubSeq(s, i + 1, j - 1)), j + 1)

\* an integer token starting at s[i]: -?(0|[1-9][0-9]*)
parseNumber(s, i) ==
    LET negative == s[i] = "-"
        d == IF negative THEN i + 1 ELSE i
        e == IF d <= Len(s) /\ s[d] = "0" THEN d + 1 ELSE digitsEnd(s, d)
    IN  IF e = d THEN SyntaxError
        ELSE Parsed(Num(IF negative THEN 0 - NatOf(SubSeq(s, d, e - 1))
                        ELSE NatOf(SubSeq(s, d, e - 1))), e)

RECURSIVE parseValue(_, _), parseMembers(_, _, _), parseElements(_, _, _)

\* a JSON value starting at or after s[i0]
parseValue(s, i0) ==
    LET i == skipWs(s, i0)
    IN  IF i > Len(s) THEN SyntaxError
        ELSE IF s[i] = "{"
        THEN IF skipWs(s, i + 1) <= Len(s) /\ s[skipWs(s, i + 1)] = "}"
             THEN Parsed(Obj(<< >>), skipWs(s, i + 1) + 1)
             ELSE parseMembers(s, skipWs(s, i + 1), << >>)
        ELSE IF s[i] = "["
        THEN IF skipWs(s, i + 1) <= Len(s) /\ s[skipWs(s, i + 1)] = "]"
             THEN Parsed(Arr(<< >>), skipWs(s, i + 1) + 1)
             ELSE parseElements(s, i + 1, << >>)
        ELSE IF s[i] = "\"" THEN parseString(s, i)
        ELSE IF startsWith(sliceFrom(s, i - 1), <<"t","r","u","e">>) THEN Parsed(Bool(TRUE), i + 4)
        ELSE IF startsWith(sliceFrom(s, i - 1), <<"f","a","l","s","e">>) THEN Parsed(Bool(FALSE), i + 5)
        ELSE IF startsWith(sliceFrom(s, i - 1), <<"n","u","l","l">>) THEN Parsed(Null, i + 4)
        ELSE IF s[i] = "-" \/ IsDigit(s[i]) THEN parseNumber(s, i)
        ELSE SyntaxError

\* "key": value pairs up to the closing brace; a repeated key keeps its last value
parseMembers(s, i, members) ==
    IF i > Len(s) \/ s[i] # "\"" THEN SyntaxError
    ELSE LET key == parseString(s, i)
         IN  IF ~key.ok THEN SyntaxError
             ELSE LET colon == skipWs(s, key.next)
                  IN  IF colon > Len(s) \/ s[colon] # ":" THEN SyntaxError
                      ELSE LET v == parseValue(s, colon + 1)
                           IN  IF ~v.ok THEN SyntaxError
                               ELSE LET e == skipWs(s, v.next)
                                        added == (key.value.s :> v.value) @@ members
                                    IN  IF e > Len(s) THEN SyntaxError
                                        ELSE IF s[e] = "}" THEN Parsed(Obj(added), e + 1)
                                        ELSE IF s[e] = ","
                                        THEN parseMembers(s, skipWs(s, e + 1), added)
                                        ELSE SyntaxError

\* values up to the closing bracket
parseElements(s, i, elements) ==
    LET v == parseValue(s, i)
    IN  IF ~v.ok THEN SyntaxError
        ELSE LET e == skipWs(s, v.next)
             IN  IF e > Len(s) THEN SyntaxError
                 ELSE IF s[e] = "]" THEN Parsed(Arr(Append(elements, v.value)), e + 1)
                 ELSE IF s[e] = "," THEN parseElements(s, e + 1, Append(elements, v.value))
                 ELSE SyntaxError

\* JSON.parse(text): [success, data]; success FALSE stands for the thrown SyntaxError
JSONparse(text) ==
    LET v == parseValue(text, 1)
    IN  IF v.ok /\ skipWs(text, v.next) = Len(text) + 1
        THEN [success |-> TRUE, data |-> v.value]
        ELSE [success |-> FALSE]

\* the texts that reach safeJsonParse in this model
JsonTexts ==
    { <<"h","i">>, <<"d","o","n","e">>, <<"{","\"","t","a","g","s","\"",":"," ","[","1","]","}">>, <<"n","o","t"," ","j","s","o","n">>, <<>>,
      <<"S","u","r","e",":"," ","{","\"","a","\"",":"," ","\"","x","\"",","," ","\"","n","\"",":"," ","-","2","0",","," ","\"","l","\"",":"," ","[","t","r","u","e",","," ","n","u","l","l",","," ","{","}","]","}"," ","o","k">>,
      <<"{","\"","a","\"",":"," ","1">>, <<"[","1",",","]">>, <<"4","2">>,
      Fence \o <<"j","s","o","n">> \o <<"\n">> \o <<"[","1",","," ","2","]">> \o <<"\n">> \o Fence }

\* their parse results, computed once
ParsedJsonTexts == { [text |-> text, parseResult |-> JSONparse(extractJson(text))] : text \in JsonTexts }

safeJsonParse(text) ==
    IF text \in JsonTexts
    THEN (CHOOSE parsed \in ParsedJsonTexts : parsed.text = text).parseResult
    ELSE JSONparse(extractJson(text))

\* config.json / config.template
ConfigGet(config, key) == IF key \in DOMAIN config.o THEN config.o[key] ELSE Undefined

\* context.variables.set(name, value)
MapSet(ctx, name, value) ==
    [ctx EXCEPT !.variables =
        [key \in DOMAIN ctx.variables \cup {name} |->
            IF key = name THEN value ELSE ctx.variables[key]]]

\* fault injection: a parse failure leaves the variable json as it was
storeJsonUnlessFailed(ctx, jsonSource) ==
    IF jsonSource.k = "string"
    THEN LET parseResult == safeJsonParse(jsonSource.s)
         IN  IF parseResult.success THEN MapSet(ctx, <<"j","s","o","n">>, parseResult.data) ELSE ctx
    ELSE IF TypeofObject(jsonSource) THEN MapSet(ctx, <<"j","s","o","n">>, jsonSource)
    ELSE MapSet(ctx, <<"j","s","o","n">>, Obj(<< >>))

\* the context after a json parameter that resolved to jsonSource has been handled
storeJson(ctx, jsonSource) ==
    IF jsonSource.k = "string"
    THEN LET parseResult == safeJsonParse(jsonSource.s)
         IN  IF parseResult.success
             THEN MapSet(ctx, <<"j","s","o","n">>, parseResult.data)
             ELSE MapSet(ctx, <<"j","s","o","n">>, Obj(<< >>))
    ELSE IF TypeofObject(jsonSource) THEN MapSet(ctx, <<"j","s","o","n">>, jsonSource)
    ELSE MapSet(ctx, <<"j","s","o","n">>, Obj(<< >>))

\* fault injection: the json variable is written whether or not a json parameter is given
parseJsonParameterAlways(config, ctx) ==
    CHOOSE after \in { storeJson(ctx, jsonSource) :
                       jsonSource \in {resolveVariables(ConfigGet(config, <<"j","s","o","n">>), ctx)} } : TRUE

\* the context after the json parameter of the config has been handled
parseJsonParameter(config, ctx) ==
    IF ~Truthy(ConfigGet(config, <<"j","s","o","n">>)) THEN ctx
    ELSE CHOOSE after \in { storeJson(ctx, jsonSource) :
                            jsonSource \in {resolveVariables(ConfigGet(config, <<"j","s","o","n">>), ctx)} } : TRUE

\* fault injection: an array is wrapped as well
wrapResolvedNonMapping(resolved) ==
    IF resolved.k # "object" THEN Obj((<<"v","a","l","u","e">>) :> resolved) ELSE resolved

\* the record for a resolved template: typeof resolved !== 'object' or null is wrapped
wrapResolved(resolved) ==
    IF ~TypeofObject(resolved) THEN Obj((<<"v","a","l","u","e">>) :> resolved) ELSE resolved

\* what the handler returns once the json parameter has been handled
transform(config, parsed) ==
    IF ConfigGet(config, <<"t","e","m","p","l","a","t","e">>) = Undefined
    THEN IF Truthy(ConfigGet(config, <<"j","s","o","n">>)) /\ TypeofObject(MapGet(parsed.variables, <<"j","s","o","n">>))
         THEN [result |-> MapGet(parsed.variables, <<"j","s","o","n">>), context |-> parsed]
         ELSE [result |-> Obj(<< >>), context |-> parsed]
    ELSE [result |-> wrapResolved(resolveVariables(ConfigGet(config, <<"t","e","m","p","l","a","t","e">>), parsed)),
          context |-> parsed]

\* outputPrimitive(config, context): the record it resolves with and the context it leaves
outputPrimitive(config, ctx) ==
    CHOOSE out \in { transform(config, parsed) : parsed \in {parseJsonParameter(config, ctx)} } : TRUE

----------------------------------------------------------------------------
(* WorkflowExecutor *)

\* new WorkflowExecutor(yaml)
Constructor(y) ==
    LET enabled == IF y.metadata.observability = Undefined THEN Undefined
                   ELSE GetProp(y.metadata.observability, <<"e","n","a","b","l","e","d">>)
    IN  [steps |-> y.workflow,
         returnTemplate |-> y.return,
         observabilityEnabled |-> (enabled = Bool(TRUE) \/ enabled = Str(<<"t","r","u","e">>))]

\* context.trace.push(event), a no-op when the context has no trace
\* context.trace.push(event) in try/catch: a no-op when the context has no trace
\* and when the push throws
pushEvent(ctx, event) ==
    IF ctx.trace = Undefined THEN ctx
    ELSE IF pushFails THEN ctx
    ELSE [ctx EXCEPT !.trace = Arr(Append(ctx.trace.a, event))]

StepStartEvent(step, i, totalSteps, timestamp) ==
    [type |-> "step-start", stepId |-> step.id, stepType |-> step.type,
     stepIndex |-> i, totalSteps |-> totalSteps, timestamp |-> timestamp]

StepCompleteEvent(step, i, totalSteps, timestamp, duration) ==
    [type |-> "step-complete", stepId |-> step.id, stepType |-> step.type,
     stepIndex |-> i, totalSteps |-> totalSteps, timestamp |-> timestamp,
     duration |-> duration]

\* fault injection: the event carries the text of the error
StepErrorEventWithMessage(step, i, totalSteps, timestamp, duration, error) ==
    [type |-> "step-error", stepId |-> step.id, stepType |-> step.type,
     stepIndex |-> i, totalSteps |-> totalSteps, timestamp |-> timestamp,
     duration |-> duration, errorType |-> String(error)]

StepErrorEvent(step, i, totalSteps, timestamp, duration, error) ==
    [type |-> "step-error", stepId |-> step.id, stepType |-> step.type,
     stepIndex |-> i, totalSteps |-> totalSteps, timestamp |-> timestamp,
     duration |-> duration, errorType |-> sanitizeErrorType(error)]

\* fault injection: the trace is attached whenever there is one, empty or not
attachTraceWhenPresent(ctx, result) ==
    IF ctx.trace # Undefined
    THEN Obj([key \in DOMAIN result.o \cup {<<"_","_","t","r","a","c","e">>} |->
                IF key = <<"_","_","t","r","a","c","e">> THEN ctx.trace ELSE result.o[key]])
    ELSE result

\* { ...result, __trace: context.trace } when the trace holds an event
attachTrace(ctx, result) ==
    IF ctx.trace # Undefined /\ Len(ctx.trace.a) > 0
    THEN Obj([key \in DOMAIN result.o \cup {<<"_","_","t","r","a","c","e">>} |->
                IF key = <<"_","_","t","r","a","c","e">> THEN ctx.trace ELSE result.o[key]])
    ELSE result

UnknownStepTypeError(step, reg) ==
    ErrorObj(<<"E","r","r","o","r">>,
        <<"[","B","e","d","d","e","l","]"," ","U","n","k","n","o","w","n"," ","s","t","e","p"," ","t","y","p","e",":"," ","\"">> \o step.type \o <<"\""," ","i","n"," ","s","t","e","p"," ","\"">> \o step.id \o <<"\"","."," ">>
            \o <<"R","e","g","i","s","t","e","r","e","d"," ","t","y","p","e","s",":"," ">>
            \o (IF Len(reg) = 0 THEN <<"(","n","o","n","e",")">> ELSE join(RegistryKeys(reg), <<","," ">>)))

\* fault injection: the last step's output is never returned directly
FinalResultAccumulated(ex, ctx, last) ==
    IF ex.returnTemplate # Undefined
    THEN LET resolved == resolveVariables(ex.returnTemplate, ctx)
         IN  IF resolved.k = "object" THEN attachTrace(ctx, resolved)
             ELSE attachTrace(ctx, Obj((<<"v","a","l","u","e">>) :> resolved))
    ELSE attachTrace(ctx, Obj(ctx.variables))

\* the value execute() returns once the loop has run through every step
FinalResult(ex, ctx, last) ==
    LET n == Len(ex.steps)
    IN  IF n > 0 /\ ~Truthy(ex.steps[n].result) /\ Truthy(last)
        THEN attachTrace(ctx, last)
        ELSE IF ex.returnTemplate # Undefined
        THEN LET resolved == resolveVariables(ex.returnTemplate, ctx)
             IN  IF resolved.k = "object" THEN attachTrace(ctx, resolved)
                 ELSE attachTrace(ctx, Obj((<<"v","a","l","u","e">>) :> resolved))
        ELSE attachTrace(ctx, Obj(ctx.variables))

Pending == [kind |-> "pending"]
Returned(v) == [kind |-> "returned", value |-> v]
Threw(e) == [kind |-> "threw", value |-> e]

\* the step the loop is at, and the handler bound to it
CurrentStep(c) == executor[c].steps[stepIndex[c] + 1]
CurrentHandler(c) == Lookup(handlerRegistry, CurrentStep(c).type)

\* execute(input): build the context and enter the loop
Execute(c, input) ==
    /\ pc[c] = "idle"
    /\ context' = [context EXCEPT ![c] =
            [input |-> input, variables |-> << >>,
             trace |-> IF executor[c].observabilityEnabled THEN Arr(<< >>) ELSE Undefined]]
    /\ stepIndex' = [stepIndex EXCEPT ![c] = 0]
    /\ lastResult' = [lastResult EXCEPT ![c] = Null]
    /\ pc' = [pc EXCEPT ![c] = "loop"]
    /\ UNCHANGED <<handlerRegistry, yaml, executor, startTime, outcome, invoked, settled,
                   now, sanVars, pureVars, registered, agentVars, tenantVars>>

\* fault injection: the unknown type is reported in the trace before the throw
UnknownStepTypeTraced(c) ==
    /\ pc[c] = "loop"
    /\ stepIndex[c] < Len(executor[c].steps)
    /\ CurrentHandler(c) = "none"
    /\ context' = [context EXCEPT ![c] =
            pushEvent(@, StepErrorEvent(CurrentStep(c), stepIndex[c], Len(executor[c].steps), now, 0,
                                        UnknownStepTypeError(CurrentStep(c), handlerRegistry)))]
    /\ outcome' = [outcome EXCEPT ![c] = Threw(UnknownStepTypeError(CurrentStep(c), handlerRegistry))]
    /\ pc' = [pc EXCEPT ![c] = "done"]
    /\ UNCHANGED <<handlerRegistry, yaml, executor, stepIndex, lastResult,
                   startTime, invoked, settled, now, sanVars, pureVars, registered, agentVars, tenantVars>>

\* loop head, no handler under step.type: throw before any event is pushed
UnknownStepType(c) ==
    /\ pc[c] = "loop"
    /\ stepIndex[c] < Len(executor[c].steps)
    /\ CurrentHandler(c) = "none"
    /\ outcome' = [outcome EXCEPT ![c] = Threw(UnknownStepTypeError(CurrentStep(c), handlerRegistry))]
    /\ pc' = [pc EXCEPT ![c] = "done"]
    /\ UNCHANGED <<handlerRegistry, yaml, executor, context, stepIndex, lastResult,
                   startTime, invoked, settled, now, sanVars, pureVars, registered, agentVars, tenantVars>>

\* fault injection: the handler is called but its promise is not awaited
InvokeHandlerNoAwait(c) ==
    /\ pc[c] = "loop"
    /\ stepIndex[c] < Len(executor[c].steps)
    /\ CurrentHandler(c) # "none"
    /\ context' = [context EXCEPT ![c] =
            pushEvent(@, StepStartEvent(CurrentStep(c), stepIndex[c],
                                        Len(executor[c].steps), now))]
    /\ startTime' = [startTime EXCEPT ![c] = now]
    /\ invoked' = [invoked EXCEPT ![c] =
            Append(@, [index |-> stepIndex[c], handler |-> CurrentHandler(c)])]
    /\ stepIndex' = [stepIndex EXCEPT ![c] = @ + 1]
    /\ UNCHANGED <<handlerRegistry, yaml, executor, pc, lastResult, outcome,
                   settled, now, sanVars, pureVars, registered, agentVars, tenantVars>>

\* fault injection: the handler is called before step-start is pushed
InvokeHandlerUntraced(c) ==
    /\ pc[c] = "loop"
    /\ stepIndex[c] < Len(executor[c].steps)
    /\ CurrentHandler(c) # "none"
    /\ startTime' = [startTime EXCEPT ![c] = now]
    /\ invoked' = [invoked EXCEPT ![c] =
            Append(@, [index |-> stepIndex[c], handler |-> CurrentHandler(c)])]
    /\ pc' = [pc EXCEPT ![c] = "await"]
    /\ UNCHANGED <<handlerRegistry, yaml, executor, context, stepIndex, lastResult, outcome,
                   settled, now, sanVars, pureVars, registered, agentVars, tenantVars>>

\* loop head: push step-start, take startTime, call the handler and await it
InvokeHandler(c) ==
    /\ pc[c] = "loop"
    /\ stepIndex[c] < Len(executor[c].steps)
    /\ CurrentHandler(c) # "none"
    /\ context' = [context EXCEPT ![c] =
            pushEvent(@, StepStartEvent(CurrentStep(c), stepIndex[c],
                                        Len(executor[c].steps), now))]
    /\ startTime' = [startTime EXCEPT ![c] = now]
    /\ invoked' = [invoked EXCEPT ![c] =
            Append(@, [index |-> stepIndex[c], handler |-> CurrentHandler(c)])]
    /\ pc' = [pc EXCEPT ![c] = "await"]
    /\ UNCHANGED <<handlerRegistry, yaml, executor, stepIndex, lastResult, outcome,
                   settled, now, sanVars, pureVars, registered, agentVars, tenantVars>>

RunningHandler(c) == invoked[c][Len(invoked[c])].handler

\* fault injection: one variables map held by the executor and written by every call
HandlerReturnsRecordShared(c, result, elapsed) ==
    /\ pc[c] = "await"
    /\ result \in HandlerRecords(RunningHandler(c))
    /\ now' = now + elapsed
    /\ settled' = [settled EXCEPT ![c] =
            Append(@, [index |-> stepIndex[c], kind |-> "record", value |-> result])]
    /\ context' = [d \in CallIds |->
            LET pushed == IF d = c
                          THEN pushEvent(context[d], StepCompleteEvent(CurrentStep(c), stepIndex[c],
                                            Len(executor[c].steps), now', now' - startTime[c]))
                          ELSE context[d]
            IN  IF Truthy(CurrentStep(c).result) /\ pc[d] \in {"loop", "await"}
                THEN MapSet(pushed, CurrentStep(c).result.s, result)
                ELSE pushed]
    /\ lastResult' = [lastResult EXCEPT ![c] = result]
    /\ stepIndex' = [stepIndex EXCEPT ![c] = @ + 1]
    /\ pc' = [pc EXCEPT ![c] = "loop"]
    /\ UNCHANGED <<handlerRegistry, yaml, executor, startTime, outcome, invoked, sanVars, pureVars, registered, agentVars, tenantVars>>

\* fault injection: a variable that is already set is not overwritten
HandlerReturnsRecordKeepFirst(c, result, elapsed) ==
    /\ pc[c] = "await"
    /\ result \in HandlerRecords(RunningHandler(c))
    /\ now' = now + elapsed
    /\ settled' = [settled EXCEPT ![c] =
            Append(@, [index |-> stepIndex[c], kind |-> "record", value |-> result])]
    /\ context' = [context EXCEPT ![c] =
            LET pushed == pushEvent(@, StepCompleteEvent(CurrentStep(c), stepIndex[c],
                                Len(executor[c].steps), now', now' - startTime[c]))
            IN  IF Truthy(CurrentStep(c).result)
                THEN [pushed EXCEPT !.variables =
                        [key \in DOMAIN pushed.variables \cup {CurrentStep(c).result.s} |->
                            IF key \in DOMAIN pushed.variables THEN pushed.variables[key]
                            ELSE result]]
                ELSE pushed]
    /\ lastResult' = [lastResult EXCEPT ![c] = result]
    /\ stepIndex' = [stepIndex EXCEPT ![c] = @ + 1]
    /\ pc' = [pc EXCEPT ![c] = "loop"]
    /\ UNCHANGED <<handlerRegistry, yaml, executor, startTime, outcome, invoked, sanVars, pureVars, registered, agentVars, tenantVars>>

\* the awaited promise resolves with a record: store it and go to the next step
HandlerReturnsRecord(c, result, elapsed) ==
    /\ pc[c] = "await"
    /\ result \in HandlerRecords(RunningHandler(c))
    /\ now' = now + elapsed
    /\ settled' = [settled EXCEPT ![c] =
            Append(@, [index |-> stepIndex[c], kind |-> "record", value |-> result])]
    /\ context' = [context EXCEPT ![c] =
            LET pushed == pushEvent(@, StepCompleteEvent(CurrentStep(c), stepIndex[c],
                                Len(executor[c].steps), now', now' - startTime[c]))
            IN  IF Truthy(CurrentStep(c).result)
                THEN [pushed EXCEPT !.variables =
                        [key \in DOMAIN pushed.variables \cup {CurrentStep(c).result.s} |->
                            IF key = CurrentStep(c).result.s THEN result
                            ELSE pushed.variables[key]]]
                ELSE pushed]
    /\ lastResult' = [lastResult EXCEPT ![c] = result]
    /\ stepIndex' = [stepIndex EXCEPT ![c] = @ + 1]
    /\ pc' = [pc EXCEPT ![c] = "loop"]
    /\ UNCHANGED <<handlerRegistry, yaml, executor, startTime, outcome, invoked, sanVars, pureVars, registered, agentVars, tenantVars>>

\* the awaited promise of the output-generator handler resolves: the handler has
\* written variables["json"] into the context it was given, and its record is stored
OutputHandlerReturns(c, elapsed) ==
    /\ pc[c] = "await"
    /\ RunningHandler(c) = "outputPrimitive"
    /\ now' = now + elapsed
    /\ LET out == outputPrimitive(CurrentStep(c).config, context[c])
           pushed == pushEvent(out.context, StepCompleteEvent(CurrentStep(c), stepIndex[c],
                                Len(executor[c].steps), now', now' - startTime[c]))
       IN  /\ settled' = [settled EXCEPT ![c] =
                    Append(@, [index |-> stepIndex[c], kind |-> "record", value |-> out.result])]
           /\ context' = [context EXCEPT ![c] =
                    IF Truthy(CurrentStep(c).result)
                    THEN MapSet(pushed, CurrentStep(c).result.s, out.result)
                    ELSE pushed]
           /\ lastResult' = [lastResult EXCEPT ![c] = out.result]
    /\ stepIndex' = [stepIndex EXCEPT ![c] = @ + 1]
    /\ pc' = [pc EXCEPT ![c] = "loop"]
    /\ UNCHANGED <<handlerRegistry, yaml, executor, startTime, outcome, invoked, sanVars, pureVars, registered, agentVars, tenantVars>>

\* fault injection: a Response is treated like a record (no instanceof check)
HandlerReturnsResponseStored(c, elapsed) ==
    /\ pc[c] = "await"
    /\ ReturnsResponse(RunningHandler(c))
    /\ now' = now + elapsed
    /\ settled' = [settled EXCEPT ![c] =
            Append(@, [index |-> stepIndex[c], kind |-> "response",
                       value |-> ResponseObj(<<c, stepIndex[c]>>)])]
    /\ context' = [context EXCEPT ![c] =
            LET pushed == pushEvent(@, StepCompleteEvent(CurrentStep(c), stepIndex[c],
                                Len(executor[c].steps), now', now' - startTime[c]))
            IN  IF Truthy(CurrentStep(c).result)
                THEN [pushed EXCEPT !.variables =
                        [key \in DOMAIN pushed.variables \cup {CurrentStep(c).result.s} |->
                            IF key = CurrentStep(c).result.s
                            THEN ResponseObj(<<c, stepIndex[c]>>)
                            ELSE pushed.variables[key]]]
                ELSE pushed]
    /\ lastResult' = [lastResult EXCEPT ![c] = ResponseObj(<<c, stepIndex[c]>>)]
    /\ stepIndex' = [stepIndex EXCEPT ![c] = @ + 1]
    /\ pc' = [pc EXCEPT ![c] = "loop"]
    /\ UNCHANGED <<handlerRegistry, yaml, executor, startTime, outcome, invoked, sanVars, pureVars, registered, agentVars, tenantVars>>

\* the awaited promise resolves with a Response: push step-complete and return it
HandlerReturnsResponse(c, elapsed) ==
    /\ pc[c] = "await"
    /\ ReturnsResponse(RunningHandler(c))
    /\ now' = now + elapsed
    /\ settled' = [settled EXCEPT ![c] =
            Append(@, [index |-> stepIndex[c], kind |-> "response",
                       value |-> ResponseObj(<<c, stepIndex[c]>>)])]
    /\ context' = [context EXCEPT ![c] =
            pushEvent(@, StepCompleteEvent(CurrentStep(c), stepIndex[c],
                            Len(executor[c].steps), now', now' - startTime[c]))]
    /\ outcome' = [outcome EXCEPT ![c] = Returned(ResponseObj(<<c, stepIndex[c]>>))]
    /\ pc' = [pc EXCEPT ![c] = "done"]
    /\ UNCHANGED <<handlerRegistry, yaml, executor, stepIndex, lastResult, startTime,
                   invoked, sanVars, pureVars, registered, agentVars, tenantVars>>

\* fault injection: the catch block rethrows without pushing step-error
HandlerThrowsSilently(c, error, elapsed) ==
    /\ pc[c] = "await"
    /\ now' = now + elapsed
    /\ settled' = [settled EXCEPT ![c] =
            Append(@, [index |-> stepIndex[c], kind |-> "throw", value |-> error])]
    /\ outcome' = [outcome EXCEPT ![c] = Threw(error)]
    /\ pc' = [pc EXCEPT ![c] = "done"]
    /\ UNCHANGED <<handlerRegistry, yaml, executor, context, stepIndex, lastResult,
                   startTime, invoked, sanVars, pureVars, registered, agentVars, tenantVars>>

\* fault injection: the catch block throws a new Error in place of the caught value
HandlerThrowsWrapped(c, error, elapsed) ==
    /\ pc[c] = "await"
    /\ now' = now + elapsed
    /\ settled' = [settled EXCEPT ![c] =
            Append(@, [index |-> stepIndex[c], kind |-> "throw", value |-> error])]
    /\ context' = [context EXCEPT ![c] =
            pushEvent(@, StepErrorEvent(CurrentStep(c), stepIndex[c],
                            Len(executor[c].steps), now', now' - startTime[c], error))]
    /\ outcome' = [outcome EXCEPT ![c] =
            Threw(ErrorObj(<<"E","r","r","o","r">>, <<"S","t","e","p"," ","\"">> \o CurrentStep(c).id \o <<"\""," ","f","a","i","l","e","d">>))]
    /\ pc' = [pc EXCEPT ![c] = "done"]
    /\ UNCHANGED <<handlerRegistry, yaml, executor, stepIndex, lastResult, startTime,
                   invoked, sanVars, pureVars, registered, agentVars, tenantVars>>

\* the awaited promise rejects: push step-error and rethrow
HandlerThrows(c, error, elapsed) ==
    /\ pc[c] = "await"
    /\ now' = now + elapsed
    /\ settled' = [settled EXCEPT ![c] =
            Append(@, [index |-> stepIndex[c], kind |-> "throw", value |-> error])]
    /\ context' = [context EXCEPT ![c] =
            pushEvent(@, StepErrorEvent(CurrentStep(c), stepIndex[c],
                            Len(executor[c].steps), now', now' - startTime[c], error))]
    /\ outcome' = [outcome EXCEPT ![c] = Threw(error)]
    /\ pc' = [pc EXCEPT ![c] = "done"]
    /\ UNCHANGED <<handlerRegistry, yaml, executor, stepIndex, lastResult, startTime,
                   invoked, sanVars, pureVars, registered, agentVars, tenantVars>>

\* after the loop: compute the returned record
Finish(c) ==
    /\ pc[c] = "loop"
    /\ stepIndex[c] = Len(executor[c].steps)
    /\ outcome' = [outcome EXCEPT ![c] = Returned(FinalResult(executor[c], context[c], lastResult[c]))]
    /\ pc' = [pc EXCEPT ![c] = "done"]
    /\ UNCHANGED <<handlerRegistry, yaml, executor, context, stepIndex, lastResult,
                   startTime, invoked, settled, now, sanVars, pureVars, registered, agentVars, tenantVars>>

NoRequest == [fn |-> "none"]

NoProvider == [type |-> "null", tenants |-> {}]

\* nothing suspended in a call-agent step, pushes work, a TenantManager just constructed
Quiescent ==
    /\ frames = [c \in CallIds |-> << >>]
    /\ pushFails = FALSE
    /\ provider = NoProvider
    /\ tenantConfigs = {}
    /\ initialized = {}

NoContext == [input |-> Undefined, variables |-> << >>, trace |-> Undefined]

\* one executor, constructed from any manifest; one execute() call on it
Init ==
    /\ handlerRegistry = BuiltinRegistry
    /\ \E y \in Manifests({ConfigA}) :
          /\ yaml = [c \in CallIds |-> y]
          /\ executor = [c \in CallIds |-> Constructor(y)]
    /\ pc = [c \in CallIds |-> IF c = 1 THEN "idle" ELSE "off"]
    /\ context = [c \in CallIds |-> NoContext]
    /\ stepIndex = [c \in CallIds |-> 0]
    /\ lastResult = [c \in CallIds |-> Null]
    /\ startTime = [c \in CallIds |-> 0]
    /\ outcome = [c \in CallIds |-> Pending]
    /\ invoked = [c \in CallIds |-> << >>]
    /\ settled = [c \in CallIds |-> << >>]
    /\ now = 0
    /\ registered = << >>
    /\ Quiescent
    /\ request = NoRequest
    /\ reply = Pending
    /\ thrown = Undefined
    /\ classified = "none"

Next ==
    \/ \E t \in RegisterableTypes, h \in RegisterableHandlers : registerPrimitive(t, h)
    \/ \E c \in CallIds, input \in Inputs : Execute(c, input)
    \/ \E c \in CallIds : UnknownStepType(c)
    \/ \E c \in CallIds : InvokeHandler(c)
    \/ \E c \in CallIds, r \in LlmRecords \cup CustomRecords, d \in SteadyElapsed : HandlerReturnsRecord(c, r, d)
    \/ \E c \in CallIds, d \in SteadyElapsed : HandlerReturnsResponse(c, d)
    \/ \E c \in CallIds, e \in ThrownValues, d \in SteadyElapsed : HandlerThrows(c, e, d)
    \/ \E c \in CallIds : Finish(c)

Spec == Init /\ [][Next]_vars

----------------------------------------------------------------------------
(* Sanitizer harness: sanitizeErrorType applied to every kind of thrown value *)

SanitizerInit ==
    /\ SanInit
    /\ handlerRegistry = BuiltinRegistry
    /\ yaml = [c \in CallIds |-> [metadata |-> [name |-> <<"T","e","s","t">>, version |-> <<"1">>, observability |-> Undefined],
                                  workflow |-> << >>, return |-> Undefined]]
    /\ executor = [c \in CallIds |-> Constructor(yaml[c])]
    /\ pc = [c \in CallIds |-> "off"]
    /\ context = [c \in CallIds |-> NoContext]
    /\ stepIndex = [c \in CallIds |-> 0]
    /\ lastResult = [c \in CallIds |-> Null]
    /\ startTime = [c \in CallIds |-> 0]
    /\ outcome = [c \in CallIds |-> Pending]
    /\ invoked = [c \in CallIds |-> << >>]
    /\ settled = [c \in CallIds |-> << >>]
    /\ now = 0
    /\ registered = << >>
    /\ Quiescent
    /\ request = NoRequest
    /\ reply = Pending

SanitizerNext == Classify /\ UNCHANGED <<handlerRegistry, execVars, pureVars, registered, agentVars, tenantVars>>

SanitizerSpec == SanitizerInit /\ [][SanitizerNext]_vars

----------------------------------------------------------------------------
(* Two executions of one manifest, the second after the first: same steps,   *)
(* possibly different step configs, handler payloads, error texts, timings. *)

SameClassThrownValues == ThrownValues \cup { ErrorObj(<<"E","r","r","o","r">>, <<"N","e","t","w","o","r","k"," ","d","o","w","n">>) }

TracedManifests ==
    { y \in Manifests({ConfigA}) :
        /\ y.metadata.observability = Obj((<<"e","n","a","b","l","e","d">>) :> Bool(TRUE))
        /\ y.return = Undefined
        /\ \A n \in 1..Len(y.workflow) :
              y.workflow[n].type \in {<<"l","l","m">>, <<"c","h","a","t">>} /\ y.workflow[n].result = Undefined }

\* the manifest y with other values in its step configs
Reconfigured(y) ==
    { [y EXCEPT !.workflow = w] :
        w \in { w \in [1..Len(y.workflow) ->
                        [id : { StepId(m) : m \in 1..Len(y.workflow) }, type : StepTypes,
                         config : {ConfigA, ConfigB}, result : {Undefined}]] :
                  \A n \in 1..Len(y.workflow) :
                      /\ w[n].id = y.workflow[n].id
                      /\ w[n].type = y.workflow[n].type } }

PairInit ==
    /\ handlerRegistry = BuiltinRegistry
    /\ \E y1 \in TracedManifests : \E y2 \in Reconfigured(y1) :
          /\ yaml = [c \in CallIds |-> IF c = 1 THEN y1 ELSE y2]
          /\ executor = [c \in CallIds |-> IF c = 1 THEN Constructor(y1) ELSE Constructor(y2)]
    /\ pc = [c \in CallIds |-> "idle"]
    /\ context = [c \in CallIds |-> NoContext]
    /\ stepIndex = [c \in CallIds |-> 0]
    /\ lastResult = [c \in CallIds |-> Null]
    /\ startTime = [c \in CallIds |-> 0]
    /\ outcome = [c \in CallIds |-> Pending]
    /\ invoked = [c \in CallIds |-> << >>]
    /\ settled = [c \in CallIds |-> << >>]
    /\ now = 0
    /\ registered = << >>
    /\ Quiescent
    /\ request = NoRequest
    /\ reply = Pending
    /\ thrown = Undefined
    /\ classified = "none"

PairNext ==
    \/ \E input \in Inputs : Execute(1, input)
    \/ \E input \in Inputs : pc[1] = "done" /\ Execute(2, input)
    \/ \E c \in CallIds : InvokeHandler(c)
    \/ \E r \in LlmRecords, d \in SteadyElapsed : HandlerReturnsRecord(1, r, d)
    \/ \E r \in LlmRecords, d \in Elapsed : HandlerReturnsRecord(2, r, d)
    \/ \E d \in SteadyElapsed : HandlerReturnsResponse(1, d)
    \/ \E d \in Elapsed : HandlerReturnsResponse(2, d)
    \/ \E e \in ThrownValues, d \in SteadyElapsed : HandlerThrows(1, e, d)
    \/ \E e \in SameClassThrownValues, d \in Elapsed : HandlerThrows(2, e, d)
    \/ \E c \in CallIds : Finish(c)

PairSpec == PairInit /\ [][PairNext]_vars

----------------------------------------------------------------------------
(* Properties of execute() *)

Steps(c) == executor[c].steps
InvokedIndexes(c) == { invoked[c][n].index : n \in 1..Len(invoked[c]) }
Done(c) == pc[c] = "done"

\* the steps of call c whose handler settled with the given kind
SettledWith(c, kind) == { n \in 1..Len(settled[c]) : settled[c][n].kind = kind }

\* every variable holds the record of a step that completed under that result name
VariablesFromRecords(c) ==
    \A key \in DOMAIN context[c].variables :
        \E n \in SettledWith(c, "record") :
            /\ Steps(c)[settled[c][n].index + 1].result = Str(key)
            /\ context[c].variables[key] = settled[c][n].value

\* C1: if the handler of step k returns a streaming Response, execute returns that
\* very Response object, no handler of a step with index > k is invoked, and
\* nothing is written to context.variables for step k.
C1_StreamingShortCircuit ==
    \A c \in CallIds : \A n \in SettledWith(c, "response") :
        /\ outcome[c] = Returned(settled[c][n].value)
        /\ Done(c)
        /\ \A m \in InvokedIndexes(c) : m <= settled[c][n].index
        /\ VariablesFromRecords(c)
        /\ \A key \in DOMAIN context[c].variables : ~IsResponse(context[c].variables[key])

\* a Response came back from a step that has a result name and is followed by another step
C1_Witness ==
    \E n \in SettledWith(1, "response") :
        /\ settled[1][n].index + 1 < Len(Steps(1))
        /\ Truthy(Steps(1)[settled[1][n].index + 1].result)
        /\ Done(1)

\* C2: handlers run strictly in manifest order and never overlap: the n-th
\* invocation is step n-1, each step is invoked at most once, a step is invoked
\* only after the promise of the step before it has settled, and no step is
\* skipped before the first step that throws or returns a Response.
C2_SequentialInOrder ==
    \A c \in CallIds :
        /\ \A n \in 1..Len(invoked[c]) : invoked[c][n].index = n - 1
        /\ \A n \in 1..Len(settled[c]) : settled[c][n].index = n - 1
        /\ Len(settled[c]) <= Len(invoked[c])
        /\ Len(invoked[c]) <= Len(settled[c]) + 1
        /\ (Len(invoked[c]) = Len(settled[c]) + 1) <=> (pc[c] = "await")
        /\ \A n \in 1..(Len(settled[c]) - 1) : settled[c][n].kind = "record"
        /\ Len(invoked[c]) <= Len(Steps(c))

\* the second handler is pending after the first one settled
C2_Witness ==
    /\ pc[1] = "await"
    /\ Len(invoked[1]) = 2
    /\ Len(settled[1]) = 1

TraceOf(c) == context[c].trace.a

\* C3: with observability enabled the trace is always a prefix of
\* start_0, end_0, start_1, end_1, ... with end_i one of step-complete_i and
\* step-error_i: one step-start per invoked handler, one end per settled
\* handler, and exactly 2N events once N steps have all completed with records.
C3_TraceShape ==
    \A c \in CallIds :
        (executor[c].observabilityEnabled /\ pc[c] \notin {"idle", "off"}) =>
            /\ context[c].trace # Undefined
            /\ Len(TraceOf(c)) = Len(invoked[c]) + Len(settled[c])
            /\ \A n \in 1..Len(TraceOf(c)) :
                  /\ TraceOf(c)[n].stepIndex = (n - 1) \div 2
                  /\ TraceOf(c)[n].stepId = Steps(c)[((n - 1) \div 2) + 1].id
                  /\ (n % 2 = 1) => TraceOf(c)[n].type = "step-start"
                  /\ (n % 2 = 0) => TraceOf(c)[n].type \in {"step-complete", "step-error"}
                  /\ (n % 2 = 0 /\ n < Len(TraceOf(c))) => TraceOf(c)[n].type = "step-complete"
                  /\ (n % 2 = 0) =>
                        ((TraceOf(c)[n].type = "step-error") <=> (settled[c][n \div 2].kind = "throw"))
            /\ (Done(c) /\ outcome[c].kind = "returned" /\ ~IsResponse(outcome[c].value)) =>
                  /\ Len(TraceOf(c)) = 2 * Len(Steps(c))
                  /\ \A n \in 1..Len(TraceOf(c)) : TraceOf(c)[n].type # "step-error"
                  /\ Len(Steps(c)) > 0 => outcome[c].value.o[<<"_","_","t","r","a","c","e">>] = context[c].trace

\* every step of a traced workflow of MaxSteps steps completed with a record
C3_Witness ==
    /\ executor[1].observabilityEnabled
    /\ Done(1)
    /\ Len(Steps(1)) = MaxSteps
    /\ outcome[1].kind = "returned"
    /\ ~IsResponse(outcome[1].value)
    /\ Len(TraceOf(1)) = 2 * MaxSteps

\* C4: if the handler of step k throws e, execute rejects with that same e,
\* returns no record, and invokes no handler of a step with index > k.
C4_ThrowPropagatesUnchanged ==
    \A c \in CallIds : \A n \in SettledWith(c, "throw") :
        /\ Done(c)
        /\ outcome[c] = Threw(settled[c][n].value)
        /\ \A m \in InvokedIndexes(c) : m <= settled[c][n].index

\* a handler threw a value that is not an Error, with a later step left unrun
C4_Witness ==
    \E n \in SettledWith(1, "throw") :
        /\ ~IsError(settled[1][n].value)
        /\ settled[1][n].index + 1 < Len(Steps(1))
        /\ Done(1)

\* every step of call c completed with a record and execute() returned
AllStepsCompleted(c) ==
    /\ Done(c)
    /\ outcome[c].kind = "returned"
    /\ Len(settled[c]) = Len(Steps(c))
    /\ \A n \in 1..Len(settled[c]) : settled[c][n].kind = "record"

\* a record without its __trace key
WithoutTrace(v) == [key \in DOMAIN v.o \ {<<"_","_","t","r","a","c","e">>} |-> v.o[key]]

\* the resolved return template, wrapped as {value: resolved} when it is no mapping
ShapedReturn(c) ==
    LET resolved == resolveVariables(executor[c].returnTemplate, context[c])
    IN  IF resolved.k = "object" THEN resolved ELSE Obj((<<"v","a","l","u","e">>) :> resolved)

\* C5: whenever a return template is defined and all steps complete with
\* records, execute returns exactly the resolved return template (wrapped when
\* it is not an object) and no other key, whether or not the last step has a
\* result key.
C5_ReturnTemplateFirst ==
    \A c \in CallIds :
        (AllStepsCompleted(c) /\ executor[c].returnTemplate # Undefined) =>
            WithoutTrace(outcome[c].value) = WithoutTrace(ShapedReturn(c))

\* the observability setting of the manifest is boolean true or the string "true"
ObservabilityRequested(c) ==
    /\ yaml[c].metadata.observability # Undefined
    /\ GetProp(yaml[c].metadata.observability, <<"e","n","a","b","l","e","d">>) \in {Bool(TRUE), Str(<<"t","r","u","e">>)}

\* C6: a blocking execution without observability returns a record with no
\* __trace key, whatever records the handlers return; with observability (true
\* or "true") and at least one step the record has __trace with >= 1 event.
C6_TraceOnlyWhenEnabled ==
    \A c \in CallIds :
        (Done(c) /\ outcome[c].kind = "returned" /\ ~IsResponse(outcome[c].value)) =>
            /\ ~ObservabilityRequested(c) => <<"_","_","t","r","a","c","e">> \notin DOMAIN outcome[c].value.o
            /\ (ObservabilityRequested(c) /\ Len(Steps(c)) >= 1) =>
                  /\ <<"_","_","t","r","a","c","e">> \in DOMAIN outcome[c].value.o
                  /\ outcome[c].value.o[<<"_","_","t","r","a","c","e">>].k = "array"
                  /\ Len(outcome[c].value.o[<<"_","_","t","r","a","c","e">>].a) >= 1

\* a trace without its timestamps and durations
StripTimes(trace) ==
    [n \in 1..Len(trace) |->
        [f \in DOMAIN trace[n] \ {"timestamp", "duration"} |-> trace[n][f]]]

EventFields ==
    {"type", "stepId", "stepType", "stepIndex", "totalSteps", "timestamp", "duration", "errorType"}

\* two executions went the same way: step by step the same kind of outcome, and
\* thrown values of the same classification
SameCourse(c1, c2) ==
    /\ Done(c1) /\ Done(c2)
    /\ outcome[c1].kind = outcome[c2].kind
    /\ Len(invoked[c1]) = Len(invoked[c2])
    /\ Len(settled[c1]) = Len(settled[c2])
    /\ \A n \in 1..Len(settled[c1]) :
          /\ settled[c1][n].kind = settled[c2][n].kind
          /\ settled[c1][n].kind = "throw" =>
                sanitizeErrorType(settled[c1][n].value) = sanitizeErrorType(settled[c2][n].value)

\* C7: two executions of the same manifest that differ only in the messages of
\* thrown errors (same classification), in handler return payloads or in step
\* config values have identical traces up to timestamps and durations; events
\* have no field beyond the event schema and every errorType is one of the five.
C7_TraceIndependentOfPayloads ==
    /\ SameCourse(1, 2) => StripTimes(TraceOf(1)) = StripTimes(TraceOf(2))
    /\ \A c \in CallIds :
          context[c].trace # Undefined =>
              \A n \in 1..Len(TraceOf(c)) :
                  /\ DOMAIN TraceOf(c)[n] \subseteq EventFields
                  /\ TraceOf(c)[n].type = "step-error" => TraceOf(c)[n].errorType \in ErrorTypes

\* both runs failed at their second step with different messages of one class,
\* after different payloads, under different configs and with different timings
C7_Witness ==
    /\ SameCourse(1, 2)
    /\ Len(settled[1]) = 2
    /\ settled[1][2].kind = "throw"
    /\ settled[1][2].value # settled[2][2].value
    /\ settled[1][1].value # settled[2][1].value
    /\ yaml[1] # yaml[2]
    /\ TraceOf(1) # TraceOf(2)

\* the rule the sanitizer follows, category by category, in its order of precedence
MatchesTimeout(v) ==
    IsError(v) /\ (includes(toLowerCase(v.message), <<"t","i","m","e","o","u","t">>) \/ includes(toLowerCase(v.name), <<"t","i","m","e","o","u","t">>))
MatchesAuth(v) == IsError(v) /\ includes(toLowerCase(v.message), <<"a","u","t","h">>)
MatchesValidation(v) ==
    IsError(v) /\ (includes(toLowerCase(v.message), <<"v","a","l","i","d">>) \/ includes(toLowerCase(v.name), <<"v","a","l","i","d","a","t","i","o","n">>))
MatchesNetwork(v) ==
    IsError(v) /\ (includes(toLowerCase(v.message), <<"n","e","t","w","o","r","k">>) \/ includes(toLowerCase(v.message), <<"e","c","o","n","n","r","e","f","u","s","e","d">>))

\* C8 (as amended): for an Error instance the errorType is the first category
\* that matches, in the order timeout (message or class name contains
\* "timeout"), auth_failed (message contains "auth"), validation (message
\* contains "valid" or class name contains "validation"), network (message
\* contains "network" or "econnrefused"); it is unknown when none matches and
\* for every thrown value that is not an Error instance. Matching ignores case.
C8_ClassifiedInOrder ==
    classified # "none" =>
        /\ (classified = "timeout") <=> MatchesTimeout(thrown)
        /\ (classified = "auth_failed") <=> (~MatchesTimeout(thrown) /\ MatchesAuth(thrown))
        /\ (classified = "validation") <=>
              (~MatchesTimeout(thrown) /\ ~MatchesAuth(thrown) /\ MatchesValidation(thrown))
        /\ (classified = "network") <=>
              (~MatchesTimeout(thrown) /\ ~MatchesAuth(thrown) /\ ~MatchesValidation(thrown)
                  /\ MatchesNetwork(thrown))
        /\ classified \in ErrorTypes

\* an Error whose class name, not its message, says "auth" was classified unknown
C8_Witness ==
    /\ classified = "unknown"
    /\ IsError(thrown)
    /\ includes(toLowerCase(thrown.name), <<"a","u","t","h">>)

\* C8 (as claimed): the errorType is decided by case-insensitive substring match
\* on the thrown value's message or its class name, for every category.
C8_ClassifiedByMessageOrName ==
    classified # "none" => classified = sanitizeErrorTypeByMessageOrName(thrown)

C10_LastOutputReturned ==
    \A c \in CallIds :
        (AllStepsCompleted(c) /\ executor[c].returnTemplate = Undefined
            /\ Len(Steps(c)) > 0 /\ Steps(c)[Len(Steps(c))].result = Undefined) =>
            LET last == settled[c][Len(settled[c])].value
            IN  IF executor[c].observabilityEnabled
                THEN /\ WithoutTrace(outcome[c].value) = WithoutTrace(last)
                     /\ outcome[c].value.o[<<"_","_","t","r","a","c","e">>] = context[c].trace
                ELSE outcome[c].value = last

\* two steps, the first stored under a name, the last without a result key
C10_Witness ==
    /\ AllStepsCompleted(1)
    /\ executor[1].returnTemplate = Undefined
    /\ Len(Steps(1)) = 2
    /\ Steps(1)[1].result # Undefined
    /\ Steps(1)[2].result = Undefined
    /\ Obj(context[1].variables) # settled[1][2].value

\* the result names of the steps of call c
ResultNamesOf(c) == { Steps(c)[n].result.s : n \in { m \in 1..Len(Steps(c)) : Truthy(Steps(c)[m].result) } }

\* the last step of call c stored under the given name
LastStepNamed(c, name) ==
    CHOOSE n \in 1..Len(Steps(c)) :
        /\ Steps(c)[n].result = Str(name)
        /\ \A m \in (n + 1)..Len(Steps(c)) : Steps(c)[m].result # Str(name)

\* C11: with no return template and a final step that has a result key, execute
\* returns a mapping holding, for every step with a result name, that name
\* mapped to the record the step's handler returned (the last such record when
\* two steps share a name), and no other key but __trace.
C11_AccumulatedVariablesReturned ==
    \A c \in CallIds :
        (AllStepsCompleted(c) /\ executor[c].returnTemplate = Undefined
            /\ Len(Steps(c)) > 0 /\ Truthy(Steps(c)[Len(Steps(c))].result)) =>
            /\ outcome[c].value.k = "object"
            /\ DOMAIN WithoutTrace(outcome[c].value) = ResultNamesOf(c)
            /\ \A name \in ResultNamesOf(c) :
                  outcome[c].value.o[name] = settled[c][LastStepNamed(c, name)].value

\* two steps stored different records under one name
C11_Witness ==
    /\ AllStepsCompleted(1)
    /\ executor[1].returnTemplate = Undefined
    /\ Len(Steps(1)) = 2
    /\ Steps(1)[1].result = Str(<<"a">>)
    /\ Steps(1)[2].result = Str(<<"a">>)
    /\ settled[1][1].value # settled[1][2].value

----------------------------------------------------------------------------
(* Concurrent executions: two execute() calls in flight at once, on one      *)
(* executor or on two, their steps interleaved in every possible order      *)

\* what the caller of call c passes to execute()
InputOf(c) == Obj((<<"u","s","e","r">>) :> Str(IF c = 1 THEN <<"A","n","n">> ELSE <<"B","o","b">>))

LlmStep(n) == [id |-> StepId(n), type |-> <<"l","l","m">>, config |-> ConfigA, result |-> Str(<<"a">>)]

ChatStep(n) == [id |-> StepId(n), type |-> <<"c","h","a","t">>, config |-> ConfigA, result |-> Undefined]

\* an output-generator step that parses the llm text and reshapes it
ParseStep(n, result) ==
    [id |-> StepId(n), type |-> <<"o","u","t","p","u","t","-","g","e","n","e","r","a","t","o","r">>,
     config |-> Obj((<<"j","s","o","n">>) :> Str(<<"$","s","t","e","p","R","e","s","u","l","t",".","a",".","t","e","x","t">>) @@
                    (<<"t","e","m","p","l","a","t","e">>) :> Obj((<<"u","s","e","r">>) :> Str(<<"$","i","n","p","u","t",".","u","s","e","r">>) @@
                                        (<<"t","a","g","s">>) :> Str(<<"$","j","s","o","n",".","t","a","g","s">>))),
     result |-> result]

ConcurrentWorkflows ==
    { <<LlmStep(1), ParseStep(2, Str(<<"b">>))>>,
      <<ParseStep(1, Undefined)>>,
      <<LlmStep(1), ChatStep(2)>> }

ConcurrentManifests ==
    { [metadata |-> [name |-> <<"T","e","s","t">>, version |-> <<"1">>, observability |-> o],
       workflow |-> w, return |-> Undefined] :
        o \in { Undefined, Obj((<<"e","n","a","b","l","e","d">>) :> Bool(TRUE)) }, w \in ConcurrentWorkflows }

ConcurrentInit ==
    /\ handlerRegistry = BuiltinRegistry
    /\ \E y1 \in ConcurrentManifests, y2 \in ConcurrentManifests :
          /\ yaml = [c \in CallIds |-> IF c = 1 THEN y1 ELSE y2]
          /\ executor = [c \in CallIds |-> IF c = 1 THEN Constructor(y1) ELSE Constructor(y2)]
    /\ pc = [c \in CallIds |-> "idle"]
    /\ context = [c \in CallIds |-> NoContext]
    /\ stepIndex = [c \in CallIds |-> 0]
    /\ lastResult = [c \in CallIds |-> Null]
    /\ startTime = [c \in CallIds |-> 0]
    /\ outcome = [c \in CallIds |-> Pending]
    /\ invoked = [c \in CallIds |-> << >>]
    /\ settled = [c \in CallIds |-> << >>]
    /\ now = 0
    /\ registered = << >>
    /\ Quiescent
    /\ request = NoRequest
    /\ reply = Pending
    /\ thrown = Undefined
    /\ classified = "none"

ConcurrentNext ==
    \/ \E c \in CallIds : Execute(c, InputOf(c))
    \/ \E c \in CallIds : InvokeHandler(c)
    \/ \E c \in CallIds, r \in LlmRecords \cup JsonTextRecords, d \in SteadyElapsed :
          HandlerReturnsRecord(c, r, d)
    \/ \E c \in CallIds, d \in SteadyElapsed : OutputHandlerReturns(c, d)
    \/ \E c \in CallIds, d \in SteadyElapsed : HandlerReturnsResponse(c, d)
    \/ \E c \in CallIds, d \in SteadyElapsed : HandlerThrows(c, Str(<<"t","i","m","e","o","u","t">>), d)
    \/ \E c \in CallIds : Finish(c)

ConcurrentSpec == ConcurrentInit /\ [][ConcurrentNext]_vars

\* call c run on its own over its first n handler outcomes: the variables it
\* holds, its trace without clock readings, and lastResult
RECURSIVE RunAlone(_, _)
RunAlone(c, n) ==
    IF n = 0 THEN [variables |-> << >>, trace |-> << >>, last |-> Null]
    ELSE LET before == RunAlone(c, n - 1)
             step == Steps(c)[n]
             total == Len(Steps(c))
             own == [input |-> InputOf(c), variables |-> before.variables, trace |-> Undefined]
             start == StepStartEvent(step, n - 1, total, 0)
             complete == StepCompleteEvent(step, n - 1, total, 0, 0)
             error == StepErrorEvent(step, n - 1, total, 0, 0, settled[c][n].value)
             out == IF Lookup(BuiltinRegistry, step.type) = "outputPrimitive"
                    THEN outputPrimitive(step.config, own)
                    ELSE [result |-> settled[c][n].value, context |-> own]
             stored == IF Truthy(step.result)
                       THEN MapSet(out.context, step.result.s, out.result)
                       ELSE out.context
         IN  IF settled[c][n].kind = "throw"
             THEN [before EXCEPT !.trace = @ \o StripTimes(<<start, error>>)]
             ELSE IF settled[c][n].kind = "response"
             THEN [before EXCEPT !.trace = @ \o StripTimes(<<start, complete>>)]
             ELSE [variables |-> stored.variables,
                   trace |-> before.trace \o StripTimes(<<start, complete>>),
                   last |-> out.result]

\* what execute() settles with when call c runs on its own
AloneOutcome(c) ==
    LET n == Len(settled[c])
        run == RunAlone(c, n)
        own == [input |-> InputOf(c), variables |-> run.variables,
                trace |-> IF executor[c].observabilityEnabled THEN Arr(run.trace) ELSE Undefined]
    IN  IF n > 0 /\ settled[c][n].kind = "throw" THEN Threw(settled[c][n].value)
        ELSE IF n > 0 /\ settled[c][n].kind = "response" THEN Returned(settled[c][n].value)
        ELSE Returned(FinalResult(executor[c], own, run.last))

\* an outcome with the clock readings taken out of its __trace
UntimedOutcome(o) ==
    IF o.kind = "returned" /\ o.value.k = "object" /\ <<"_","_","t","r","a","c","e">> \in DOMAIN o.value.o
    THEN Returned(Obj([key \in DOMAIN o.value.o |->
                        IF key = <<"_","_","t","r","a","c","e">> THEN Arr(StripTimes(o.value.o[key].a))
                        ELSE o.value.o[key]]))
    ELSE o

\* C12: under every interleaving of two concurrent execute calls, on one executor
\* or on two, each call has a context of its own: its input, variables and trace
\* hold only what the call itself received, stored and recorded, and what it
\* returns or throws is what it produces when run alone on the same handler
\* outcomes (clock readings in trace events aside).
C12_CallsIsolated ==
    \A c \in CallIds :
        pc[c] \in {"loop", "await", "done"} =>
            LET run == RunAlone(c, Len(settled[c]))
                pending == IF pc[c] = "await"
                           THEN StripTimes(<<StepStartEvent(CurrentStep(c), stepIndex[c],
                                                           Len(Steps(c)), 0)>>)
                           ELSE << >>
            IN  /\ context[c].input = InputOf(c)
                /\ context[c].variables = run.variables
                /\ IF executor[c].observabilityEnabled
                   THEN StripTimes(TraceOf(c)) = run.trace \o pending
                   ELSE context[c].trace = Undefined
                /\ Done(c) => UntimedOutcome(outcome[c]) = AloneOutcome(c)

\* two traced calls that overlapped in time both returned, with different results,
\* each after its output-generator step wrote variables["json"]
C12_Witness ==
    /\ \A c \in CallIds :
          /\ Done(c)
          /\ outcome[c].kind = "returned"
          /\ executor[c].observabilityEnabled
          /\ Len(TraceOf(c)) = 4
          /\ <<"j","s","o","n">> \in DOMAIN context[c].variables
    /\ outcome[1] # outcome[2]
    /\ context[1].variables # context[2].variables
    /\ TraceOf(1)[1].timestamp < TraceOf(2)[4].timestamp
    /\ TraceOf(2)[1].timestamp < TraceOf(1)[4].timestamp

----------------------------------------------------------------------------
(* Resolver harness: resolveVariables applied to templates of every shape,  *)
(* against contexts with and without the values they refer to              *)

StepRecordA ==
    Obj((<<"t","e","x","t">>) :> Str(<<"d","o","n","e">>) @@ (<<"n">>) :> Num(12) @@ (<<"o","k">>) :> Bool(TRUE) @@
        (<<"l","i","s","t">>) :> Arr(<<Num(1), Num(2)>>) @@ (<<"u","s","a","g","e">>) :> Obj((<<"t","o","t","a","l">>) :> Num(10)) @@
        (<<"n","o","n","e">>) :> Null)

UserInput == Obj((<<"u","s","e","r">>) :> Obj((<<"n","a","m","e">>) :> Str(<<"A","l","i","c","e">>)))

\* a context after step a; the same with a step stored under the name "input"; a fresh one
ResolverContexts ==
    { [input |-> UserInput, variables |-> (<<"a">>) :> StepRecordA, trace |-> Undefined],
      [input |-> UserInput,
       variables |-> (<<"a">>) :> StepRecordA @@ (<<"i","n","p","u","t">>) :> Obj((<<"u","s","e","r">>) :> Obj((<<"n","a","m","e">>) :> Str(<<"V","a","r">>))),
       trace |-> Undefined],
      [input |-> Obj(<< >>), variables |-> << >>, trace |-> Undefined] }

ResolverStrings ==
    { <<"$","a",".","n">>, <<"$","a",".","o","k">>, <<"$","a",".","l","i","s","t">>, <<"$","a",".","u","s","a","g","e">>, <<"$","a",".","t","e","x","t">>, <<"$","a">>, <<"$","a",".","u","s","a","g","e",".","t","o","t","a","l">>,
      <<"$","s","t","e","p","R","e","s","u","l","t",".","a",".","n">>, <<"$","s","t","e","p","R","e","s","u","l","t",".","a">>, <<"$","s","t","e","p","R","e","s","u","l","t",".","a",".","u","s","a","g","e">>,
      <<"$","i","n","p","u","t",".","u","s","e","r",".","n","a","m","e">>, <<"$","i","n","p","u","t",".","u","s","e","r">>, <<"$","e","n","v",".","A","P","I","_","K","E","Y">>, <<"$","e","n","v",".","N","O","P","E">>,
      <<"$","a",".","m","i","s","s","i","n","g">>, <<"$","a",".","n","o","n","e",".","x">>, <<"$","a",".","t","e","x","t",".","l","e","n","g","t","h">>, <<"$","b",".","x">>, <<"$","s","t","e","p","R","e","s","u","l","t",".","b">>, <<"$","i","n","p","u","t",".","n","o","p","e",".","x">>,
      <<"$","a",".","c","o","n","s","t","r","u","c","t","o","r">>, <<"s","e","e"," ","$","a",".","c","o","n","s","t","r","u","c","t","o","r">>,
      <<"n","=","$","a",".","n"," ","o","k","=","$","a",".","o","k">>, <<"H","i",","," ","$","i","n","p","u","t",".","u","s","e","r",".","n","a","m","e">>, <<"l","i","s","t",":"," ","$","a",".","l","i","s","t">>, <<"u","s","e","r",":"," ","$","i","n","p","u","t",".","u","s","e","r">>,
      <<"x"," ","$","a",".","m","i","s","s","i","n","g"," ","y">>, <<"k","e","y"," ","$","e","n","v",".","N","O","P","E">>, <<"i","d","-","$","a",".","n">>, <<"$","a",".","n","%">>, <<"$","i","n","p","u","t",".","u","s","e","r",".","n","a","m","e","!">>,
      <<"$","$","a",".","n">>, <<"$","$">>, <<"$","$"," ","i","s"," ","a","n"," ","e","s","c","a","p","e">>,
      <<"J","u","s","t"," ","a"," ","s","t","r","i","n","g">>, <<>>, <<"$","5">>, <<"$">>, <<"c","o","s","t","s"," ","$","5">>, <<"1","0","0","%">> }

ResolverTemplates ==
    { Str(s) : s \in ResolverStrings } \cup
    { Num(7), Bool(FALSE), Null, Undefined,
      Obj((<<"u","s","e","r","N","a","m","e">>) :> Str(<<"$","i","n","p","u","t",".","u","s","e","r",".","n","a","m","e">>) @@ (<<"s","c","o","r","e">>) :> Str(<<"$","a",".","n">>) @@
          (<<"g","r","e","e","t","i","n","g">>) :> Str(<<"H","i",","," ","$","i","n","p","u","t",".","u","s","e","r",".","n","a","m","e">>)),
      Arr(<<Str(<<"$","a",".","l","i","s","t">>), Num(1), Arr(<<Str(<<"$","a",".","o","k">>)>>)>>) }

ResolverInit ==
    /\ request \in { [fn |-> "resolveVariables", template |-> t, context |-> ctx] :
                        t \in ResolverTemplates, ctx \in ResolverContexts }
    /\ reply = Pending
    /\ registered = << >>
    /\ Quiescent
    /\ handlerRegistry = BuiltinRegistry
    /\ yaml = [c \in CallIds |-> [metadata |-> [name |-> <<"T","e","s","t">>, version |-> <<"1">>, observability |-> Undefined],
                                  workflow |-> << >>, return |-> Undefined]]
    /\ executor = [c \in CallIds |-> Constructor(yaml[c])]
    /\ pc = [c \in CallIds |-> "off"]
    /\ context = [c \in CallIds |-> NoContext]
    /\ stepIndex = [c \in CallIds |-> 0]
    /\ lastResult = [c \in CallIds |-> Null]
    /\ startTime = [c \in CallIds |-> 0]
    /\ outcome = [c \in CallIds |-> Pending]
    /\ invoked = [c \in CallIds |-> << >>]
    /\ settled = [c \in CallIds |-> << >>]
    /\ now = 0
    /\ thrown = Undefined
    /\ classified = "none"

\* resolveVariables(template, context) returns
Resolve ==
    /\ request.fn = "resolveVariables"
    /\ reply = Pending
    /\ reply' = Returned(resolveVariables(request.template, request.context))
    /\ UNCHANGED <<handlerRegistry, registered, execVars, sanVars, request, agentVars, tenantVars>>

ResolverNext == Resolve

ResolverSpec == ResolverInit /\ [][ResolverNext]_vars

\* resolveVariables has returned for a string template
ResolvedString == reply.kind = "returned" /\ request.template.k = "string"

\* the string is exactly one reference: "$" and a dotted path of identifiers
IsReference(s) == Len(s) > 1 /\ s[1] = "$" /\ PathLen(Tail(s)) = Len(s) - 1

\* the paths of the references that occur in the string, left to right
RECURSIVE References(_)
References(s) ==
    IF Len(s) = 0 THEN {}
    ELSE IF s[1] = "$" /\ PathLen(Tail(s)) > 0
    THEN {SubSeq(s, 2, PathLen(Tail(s)) + 1)} \cup References(sliceFrom(s, PathLen(Tail(s)) + 1))
    ELSE References(Tail(s))

\* the value a reference stands for, by the table of prefixes
Referent(fullPath, ctx) ==
    IF startsWith(fullPath, <<"e","n","v",".">>)
    THEN IF sliceFrom(fullPath, 4) \in DOMAIN ProcessEnv
         THEN Str(ProcessEnv[sliceFrom(fullPath, 4)]) ELSE Undefined
    ELSE IF startsWith(fullPath, <<"i","n","p","u","t",".">>) THEN resolvePath(ctx.input, sliceFrom(fullPath, 6))
    ELSE IF startsWith(fullPath, <<"s","t","e","p","R","e","s","u","l","t",".">>)
    THEN LookupVariable(ctx.variables, sliceFrom(fullPath, 11))
    ELSE LookupVariable(ctx.variables, fullPath)

\* C13: a string that is exactly one reference resolves to the referenced value
\* itself, its type unchanged; a reference embedded in a larger string is
\* replaced by the string form of its value and the result is a string.
C13_TypedWholeStringEmbedded ==
    ResolvedString =>
        /\ IsReference(request.template.s) =>
              reply.value = Referent(Tail(request.template.s), request.context)
        /\ (References(request.template.s) # {} /\ ~IsReference(request.template.s)) =>
              reply.value = Str(interpolateVariables(request.template.s, request.context))

\* the value has the property as a key of its own
HasOwn(current, part) ==
    IF current.k = "object" THEN part \in DOMAIN current.o
    ELSE IF current.k = "array"
    THEN (ArrayIndex(part) >= 0 /\ ArrayIndex(part) < Len(current.a)) \/ part = <<"l","e","n","g","t","h">>
    ELSE FALSE

\* the path leaves the data: through null, undefined, a non-object or a missing key
RECURSIVE PathMissing(_, _)
PathMissing(current, parts) ==
    IF Len(parts) = 0 THEN FALSE
    ELSE IF ~TypeofObject(current) THEN TRUE
    ELSE IF ~HasOwn(current, Head(parts)) THEN TRUE
    ELSE PathMissing(GetProp(current, Head(parts)), Tail(parts))

VariableMissing(variables, fullPath) ==
    LET dotIndex == indexOf(fullPath, ".")
        name == IF dotIndex = -1 THEN fullPath ELSE sliceTo(fullPath, dotIndex)
    IN  IF name \notin DOMAIN variables THEN TRUE
        ELSE IF dotIndex = -1 THEN FALSE
        ELSE PathMissing(variables[name], split(sliceFrom(fullPath, dotIndex + 1)))

\* the reference names nothing that exists in the context
ReferenceMissing(fullPath, ctx) ==
    IF startsWith(fullPath, <<"e","n","v",".">>) THEN sliceFrom(fullPath, 4) \notin DOMAIN ProcessEnv
    ELSE IF startsWith(fullPath, <<"i","n","p","u","t",".">>) THEN PathMissing(ctx.input, split(sliceFrom(fullPath, 6)))
    ELSE IF startsWith(fullPath, <<"s","t","e","p","R","e","s","u","l","t",".">>)
    THEN VariableMissing(ctx.variables, sliceFrom(fullPath, 11))
    ELSE VariableMissing(ctx.variables, fullPath)

\* C14: a reference whose path does not exist (missing variable, missing key, or
\* a path through null, undefined or a non-object) resolves to undefined when it
\* is the whole string, and is left in the output exactly as written when it is
\* embedded in a larger string; resolution never throws.
C14_MissingPathUndefinedOrLiteral ==
    /\ reply.kind # "threw"
    /\ ResolvedString =>
          /\ (IsReference(request.template.s)
                /\ ReferenceMissing(Tail(request.template.s), request.context)) =>
                reply.value = Undefined
          /\ (~startsWith(request.template.s, <<"$">>) /\ References(request.template.s) # {}
                /\ \A r \in References(request.template.s) : ReferenceMissing(r, request.context)) =>
                reply.value = request.template

\* C15: a string that begins with "$$" is returned unchanged, in every context,
\* also when the text after the first "$" names an existing value.
C15_DoubleDollarUnchanged ==
    (ResolvedString /\ startsWith(request.template.s, <<"$","$">>)) => reply.value = request.template

\* the first identifier of a reference path
FirstName(fullPath) == sliceTo(fullPath, IdentLen(fullPath))

\* the string with every reference "$v.p" whose v is among the names written "$stepResult.v.p"
RECURSIVE Qualified(_, _)
Qualified(s, names) ==
    IF Len(s) = 0 THEN << >>
    ELSE IF s[1] = "$" /\ PathLen(Tail(s)) > 0
    THEN LET n == PathLen(Tail(s))
             fullPath == SubSeq(s, 2, n + 1)
         IN  (IF FirstName(fullPath) \in names /\ Len(fullPath) > Len(FirstName(fullPath))
              THEN <<"$","s","t","e","p","R","e","s","u","l","t",".">> \o fullPath
              ELSE <<"$">> \o fullPath) \o Qualified(sliceFrom(s, n + 1), names)
    ELSE <<s[1]>> \o Qualified(Tail(s), names)

ReservedNames == { <<"e","n","v">>, <<"i","n","p","u","t">>, <<"s","t","e","p","R","e","s","u","l","t">> }

\* the stored variable names that no prefix of the reference table claims
AliasNames(ctx) == DOMAIN ctx.variables \ ReservedNames

\* the string is exactly one reference, or each of its references to a stored
\* variable has a value
AliasApplies(s, ctx) ==
    \/ IsReference(s)
    \/ \A r \in References(s) : FirstName(r) \in AliasNames(ctx) => Referent(r, ctx) # Undefined

\* C16 (as amended): for every variable name v other than env, input and
\* stepResult, and every path p, "$v.p" resolves to the same value as
\* "$stepResult.v.p" against the same context when it is the whole string, and
\* when it is embedded in a larger string and the referenced value is defined.
C16_LegacyAliasExceptPrefixes ==
    (ResolvedString /\ AliasApplies(request.template.s, request.context)) =>
        reply.value = resolveVariables(
            Str(Qualified(request.template.s, AliasNames(request.context))),
            request.context)

\* a legacy reference to a stored object resolved, as the whole string, to the object
C16_Witness ==
    /\ ResolvedString
    /\ request.template.s = <<"$","a",".","u","s","a","g","e">>
    /\ Qualified(request.template.s, AliasNames(request.context)) = <<"$","s","t","e","p","R","e","s","u","l","t",".","a",".","u","s","a","g","e">>
    /\ reply.value = Obj((<<"t","o","t","a","l">>) :> Num(10))

\* C16 (as claimed): for every variable name v and path p, "$v.p" resolves to
\* the same value as "$stepResult.v.p" against the same context.
C16_LegacyAliasEveryName ==
    ResolvedString =>
        reply.value = resolveVariables(
            Str(Qualified(request.template.s, DOMAIN request.context.variables)),
            request.context)

\* C17: a string with no occurrence of the reference grammar resolves to that
\* same string, and a number, boolean, null or undefined resolves to itself.
C17_NoReferenceUnchanged ==
    reply.kind = "returned" =>
        /\ (request.template.k = "string" /\ References(request.template.s) = {}) =>
              reply.value = request.template
        /\ request.template.k \in {"number", "boolean", "null", "undefined"} =>
              reply.value = request.template

----------------------------------------------------------------------------
(* Output primitive harness: outputPrimitive applied to configs with and    *)
(* without json and template, against contexts holding a step record        *)

OutputInput == Obj((<<"u","s","e","r">>) :> Str(<<"B","o","b">>) @@ (<<"r","e","q","u","e","s","t","_","i","d">>) :> Str(<<"1","2","3">>))

\* the context after step a: a record whose text is one of the texts, or a full record
OutputContexts ==
    { [input |-> OutputInput, variables |-> (<<"a">>) :> Obj((<<"t","e","x","t">>) :> Str(text)), trace |-> Undefined] :
        text \in JsonTexts } \cup
    { [input |-> OutputInput, variables |-> (<<"a">>) :> StepRecordA, trace |-> Undefined] }

JsonParameters ==
    { Undefined, Str(<<>>), Str(<<"$","s","t","e","p","R","e","s","u","l","t",".","a",".","t","e","x","t">>), Str(<<"$","a",".","u","s","a","g","e">>), Str(<<"$","a",".","n">>),
      Str(<<"$","a",".","m","i","s","s","i","n","g">>), Str(<<"n","o","t"," ","j","s","o","n">>) }

OutputTemplates ==
    { Undefined, Null, Num(3), Bool(FALSE),
      Str(<<"$","j","s","o","n">>), Str(<<"$","j","s","o","n",".","l">>), Str(<<"$","a",".","t","e","x","t">>), Str(<<"$","a",".","m","i","s","s","i","n","g">>), Str(<<"t","a","g","s",":"," ","$","j","s","o","n",".","t","a","g","s">>),
      Obj((<<"t","a","g","s">>) :> Str(<<"$","j","s","o","n",".","t","a","g","s">>) @@ (<<"u","s","e","r">>) :> Str(<<"$","i","n","p","u","t",".","u","s","e","r">>)),
      Arr(<<Str(<<"$","i","n","p","u","t",".","u","s","e","r">>), Str(<<"$","j","s","o","n",".","a">>)>>) }

\* a step config {json?, template?}
OutputConfig(json, tpl) ==
    Obj((IF json = Undefined THEN << >> ELSE (<<"j","s","o","n">>) :> json) @@
        (IF tpl = Undefined THEN << >> ELSE (<<"t","e","m","p","l","a","t","e">>) :> tpl))

OutputInit ==
    /\ request \in { [fn |-> "outputPrimitive", config |-> OutputConfig(json, tpl), context |-> ctx] :
                        json \in JsonParameters, tpl \in OutputTemplates, ctx \in OutputContexts }
    /\ reply = Pending
    /\ registered = << >>
    /\ Quiescent
    /\ handlerRegistry = BuiltinRegistry
    /\ yaml = [c \in CallIds |-> [metadata |-> [name |-> <<"T","e","s","t">>, version |-> <<"1">>, observability |-> Undefined],
                                  workflow |-> << >>, return |-> Undefined]]
    /\ executor = [c \in CallIds |-> Constructor(yaml[c])]
    /\ pc = [c \in CallIds |-> "off"]
    /\ context = [c \in CallIds |-> NoContext]
    /\ stepIndex = [c \in CallIds |-> 0]
    /\ lastResult = [c \in CallIds |-> Null]
    /\ startTime = [c \in CallIds |-> 0]
    /\ outcome = [c \in CallIds |-> Pending]
    /\ invoked = [c \in CallIds |-> << >>]
    /\ settled = [c \in CallIds |-> << >>]
    /\ now = 0
    /\ thrown = Undefined
    /\ classified = "none"

\* await outputPrimitive(config, context) resolves: the record and the context it was given
Transform ==
    /\ request.fn = "outputPrimitive"
    /\ reply = Pending
    /\ reply' \in { [kind |-> "returned", value |-> out.result, context |-> out.context] :
                      out \in {outputPrimitive(request.config, request.context)} }
    /\ UNCHANGED <<handlerRegistry, registered, execVars, sanVars, request, agentVars, tenantVars>>

OutputNext == Transform

OutputSpec == OutputInit /\ [][OutputNext]_vars

\* outputPrimitive has resolved for a config with a template
TransformedTemplate ==
    /\ reply.kind = "returned"
    /\ ConfigGet(request.config, <<"t","e","m","p","l","a","t","e">>) # Undefined

\* the template resolved against the context the handler leaves
ResolvedTemplate == resolveVariables(ConfigGet(request.config, <<"t","e","m","p","l","a","t","e">>), reply.context)

JsonSource == resolveVariables(ConfigGet(request.config, <<"j","s","o","n">>), request.context)

\* the json parameter is set and resolves to a string that does not parse
UnparsableJson ==
    /\ request.fn = "outputPrimitive"
    /\ Truthy(ConfigGet(request.config, <<"j","s","o","n">>))
    /\ JsonSource.k = "string"
    /\ ~safeJsonParse(JsonSource.s).success

\* the request's context with the variable json set to the empty mapping
WithEmptyJson == MapSet(request.context, <<"j","s","o","n">>, Obj(<< >>))

\* C19: when the json parameter resolves to a string that cannot be parsed as
\* JSON the handler does not throw: it sets the variable json to {} and goes on,
\* returning {} without a template and the resolved template otherwise.
C19_UnparsableJsonEmptyMapping ==
    (UnparsableJson /\ reply # Pending) =>
        /\ reply.kind = "returned"
        /\ reply.context = WithEmptyJson
        /\ ConfigGet(request.config, <<"t","e","m","p","l","a","t","e">>) = Undefined => reply.value = Obj(<< >>)
        /\ ConfigGet(request.config, <<"t","e","m","p","l","a","t","e">>) # Undefined =>
              LET resolved == resolveVariables(ConfigGet(request.config, <<"t","e","m","p","l","a","t","e">>), WithEmptyJson)
              IN  reply.value = IF resolved.k \in {"object", "array"} THEN resolved
                                ELSE Obj((<<"v","a","l","u","e">>) :> resolved)

\* truncated JSON in the step's text: json is {} and the template was still resolved
C19_Witness ==
    /\ UnparsableJson
    /\ JsonSource = Str(<<"{","\"","a","\"",":"," ","1">>)
    /\ reply.kind = "returned"
    /\ MapGet(reply.context.variables, <<"j","s","o","n">>) = Obj(<< >>)
    /\ reply.value = Obj((<<"t","a","g","s">>) :> Undefined @@ (<<"u","s","e","r">>) :> Str(<<"B","o","b">>))

----------------------------------------------------------------------------
(* Registry: registerPrimitive calls of every kind, replacing and restoring  *)
(* built-ins and adding new types, while a workflow is being executed        *)

RegistryTypes == { <<"l","l","m">>, <<"c","u","s","t","o","m">> }
RegistryHandlers == { "mockHandler", "otherHandler", "llmPrimitive" }

CustomStep(n) == [id |-> StepId(n), type |-> <<"c","u","s","t","o","m">>, config |-> ConfigA, result |-> Str(<<"b">>)]

RegistryWorkflows ==
    { <<LlmStep(1), LlmStep(2)>>, <<CustomStep(1), LlmStep(2)>>, <<LlmStep(1), CustomStep(2)>> }

RegistryInit ==
    /\ handlerRegistry = BuiltinRegistry
    /\ \E w \in RegistryWorkflows :
          /\ yaml = [c \in CallIds |->
                        [metadata |-> [name |-> <<"T","e","s","t">>, version |-> <<"1">>, observability |-> Undefined],
                         workflow |-> w, return |-> Undefined]]
          /\ executor = [c \in CallIds |-> Constructor(yaml[c])]
    /\ pc = [c \in CallIds |-> IF c = 1 THEN "idle" ELSE "off"]
    /\ context = [c \in CallIds |-> NoContext]
    /\ stepIndex = [c \in CallIds |-> 0]
    /\ lastResult = [c \in CallIds |-> Null]
    /\ startTime = [c \in CallIds |-> 0]
    /\ outcome = [c \in CallIds |-> Pending]
    /\ invoked = [c \in CallIds |-> << >>]
    /\ settled = [c \in CallIds |-> << >>]
    /\ now = 0
    /\ registered = << >>
    /\ Quiescent
    /\ request = NoRequest
    /\ reply = Pending
    /\ thrown = Undefined
    /\ classified = "none"

RegistryNext ==
    \/ \E t \in RegistryTypes, h \in RegistryHandlers : registerPrimitive(t, h)
    \/ \E c \in CallIds : Execute(c, InputOf(c))
    \/ \E c \in CallIds : UnknownStepType(c)
    \/ \E c \in CallIds : InvokeHandler(c)
    \/ \E c \in CallIds, r \in LlmRecords \cup CustomRecords, d \in SteadyElapsed : HandlerReturnsRecord(c, r, d)
    \/ \E c \in CallIds : Finish(c)

RegistrySpec == RegistryInit /\ [][RegistryNext]_vars

\* the handler of the most recent registration under exactly this name, the
\* built-in if there was none ("none" when there is no built-in either)
LatestHandler(registrations, type) ==
    IF type \in DOMAIN registrations THEN registrations[type]
    ELSE Lookup(BuiltinRegistry, type)

\* every name a step can carry: the built-ins, the registered ones, an unknown one
StepTypeNames == { BuiltinRegistry[n].type : n \in 1..Len(BuiltinRegistry) } \cup RegistryTypes \cup { <<"n","o","p","e">> }

\* C20: after any sequence of registerPrimitive calls the handler used for a
\* step type is the one of the most recent registration under exactly that
\* name (the built-in if none), other names are unaffected, and once every
\* replaced name has its original handler again the registry is the original.
C20_LatestRegistrationWins ==
    [][ /\ \A type \in StepTypeNames :
              Lookup(handlerRegistry', type) = LatestHandler(registered', type)
        /\ \A c \in CallIds :
              Len(invoked'[c]) > Len(invoked[c]) =>
                  invoked'[c][Len(invoked'[c])].handler = LatestHandler(registered, CurrentStep(c).type)
        /\ (\A type \in DOMAIN registered' : registered'[type] = Lookup(BuiltinRegistry, type)) =>
              handlerRegistry' = BuiltinRegistry ]_vars

\* llm was replaced for the first step and re-registered for the second
C20_Witness ==
    /\ Len(invoked[1]) = 2
    /\ executor[1].steps[1].type = <<"l","l","m">> /\ executor[1].steps[2].type = <<"l","l","m">>
    /\ invoked[1][1].handler = "mockHandler"
    /\ invoked[1][2].handler = "llmPrimitive"
    /\ registered = (<<"l","l","m">>) :> "llmPrimitive"
    /\ handlerRegistry = BuiltinRegistry

----------------------------------------------------------------------------
(* Call-agent primitive: the handler loads the manifest of config.agentId,   *)
(* constructs a new executor and awaits its execute(); the execution that    *)
(* awaits is kept in frames[c] until the sub-execution has settled           *)

MaxNesting == 10

SubStep(n, type, result) ==
    [id |-> <<"s","u","b">> \o NatToStr(n), type |-> type, config |-> ConfigA, result |-> result]

CallStep(n, agentId, input, result) ==
    [id |-> StepId(n), type |-> <<"c","a","l","l","-","a","g","e","n","t">>,
     config |-> Obj((<<"a","g","e","n","t","I","d">>) :> Str(agentId) @@
                    (IF input = Undefined THEN << >> ELSE (<<"i","n","p","u","t">>) :> input)),
     result |-> result]

AgentManifest(observability, workflow) ==
    [metadata |-> [name |-> <<"S","u","b">>, version |-> <<"1">>, observability |-> observability],
     workflow |-> workflow, return |-> Undefined]

\* the manifests the path resolver finds, by agent id
AgentFiles ==
    (<<"t","r","a","c","e","d">>) :> AgentManifest(Obj((<<"e","n","a","b","l","e","d">>) :> Bool(TRUE)),
                                <<SubStep(1, <<"l","l","m">>, Str(<<"r">>))>>) @@
    (<<"p","l","a","i","n">>) :> AgentManifest(Undefined, <<SubStep(1, <<"l","l","m">>, Undefined)>>) @@
    (<<"c","h","a","t","t","y">>) :> AgentManifest(Obj((<<"e","n","a","b","l","e","d">>) :> Bool(TRUE)),
                                <<SubStep(1, <<"l","l","m">>, Str(<<"r">>)), SubStep(2, <<"c","h","a","t">>, Undefined)>>) @@
    (<<"l","o","o","p">>) :> AgentManifest(Undefined, <<CallStep(1, <<"l","o","o","p">>, Undefined, Undefined)>>)

\* execute(resolvedInput ?? contextInput)
SubAgentInput(config, ctx) ==
    IF resolveVariables(ConfigGet(config, <<"i","n","p","u","t">>), ctx) \in {Undefined, Null}
    THEN ctx.input
    ELSE resolveVariables(ConfigGet(config, <<"i","n","p","u","t">>), ctx)

\* what is kept of the awaiting execution
Frame(c) ==
    [yaml |-> yaml[c], executor |-> executor[c], context |-> context[c],
     stepIndex |-> stepIndex[c], lastResult |-> lastResult[c], startTime |-> startTime[c],
     invoked |-> invoked[c], settled |-> settled[c]]

Top(c) == frames[c][Len(frames[c])]
TopStep(c) == Top(c).executor.steps[Top(c).stepIndex + 1]
Pop(c) == [frames EXCEPT ![c] = SubSeq(@, 1, Len(@) - 1)]

\* callAgentPrimitive: load the sub-agent, new WorkflowExecutor(yaml), execute(input)
CallAgentExecutes(c) ==
    /\ pc[c] = "await"
    /\ RunningHandler(c) = "callAgentPrimitive"
    /\ Len(frames[c]) < MaxNesting
    /\ ConfigGet(CurrentStep(c).config, <<"a","g","e","n","t","I","d">>).s \in DOMAIN AgentFiles
    /\ LET sub == AgentFiles[ConfigGet(CurrentStep(c).config, <<"a","g","e","n","t","I","d">>).s]
       IN  /\ frames' = [frames EXCEPT ![c] = Append(@, Frame(c))]
           /\ yaml' = [yaml EXCEPT ![c] = sub]
           /\ executor' = [executor EXCEPT ![c] = Constructor(sub)]
           /\ context' = [context EXCEPT ![c] =
                   [input |-> SubAgentInput(CurrentStep(c).config, context[c]),
                    variables |-> << >>,
                    trace |-> IF Constructor(sub).observabilityEnabled
                              THEN Arr(<< >>) ELSE Undefined]]
    /\ stepIndex' = [stepIndex EXCEPT ![c] = 0]
    /\ lastResult' = [lastResult EXCEPT ![c] = Null]
    /\ invoked' = [invoked EXCEPT ![c] = << >>]
    /\ settled' = [settled EXCEPT ![c] = << >>]
    /\ pc' = [pc EXCEPT ![c] = "loop"]
    /\ UNCHANGED <<handlerRegistry, startTime, outcome, now, sanVars, pureVars, registered,
                   pushFails, tenantVars>>

\* the sub-agent's execute() resolved with a record: the handler resolves with it
SubAgentReturnsRecord(c, elapsed) ==
    /\ pc[c] = "done"
    /\ Len(frames[c]) > 0
    /\ outcome[c].kind = "returned"
    /\ ~IsResponse(outcome[c].value)
    /\ now' = now + elapsed
    /\ frames' = Pop(c)
    /\ yaml' = [yaml EXCEPT ![c] = Top(c).yaml]
    /\ executor' = [executor EXCEPT ![c] = Top(c).executor]
    /\ startTime' = [startTime EXCEPT ![c] = Top(c).startTime]
    /\ invoked' = [invoked EXCEPT ![c] = Top(c).invoked]
    /\ settled' = [settled EXCEPT ![c] =
            Append(Top(c).settled,
                   [index |-> Top(c).stepIndex, kind |-> "record", value |-> outcome[c].value])]
    /\ context' = [context EXCEPT ![c] =
            LET pushed == pushEvent(Top(c).context,
                              StepCompleteEvent(TopStep(c), Top(c).stepIndex,
                                  Len(Top(c).executor.steps), now', now' - Top(c).startTime))
            IN  IF Truthy(TopStep(c).result)
                THEN MapSet(pushed, TopStep(c).result.s, outcome[c].value)
                ELSE pushed]
    /\ lastResult' = [lastResult EXCEPT ![c] = outcome[c].value]
    /\ stepIndex' = [stepIndex EXCEPT ![c] = Top(c).stepIndex + 1]
    /\ outcome' = [outcome EXCEPT ![c] = Pending]
    /\ pc' = [pc EXCEPT ![c] = "loop"]
    /\ UNCHANGED <<handlerRegistry, sanVars, pureVars, registered, pushFails, tenantVars>>

\* the sub-agent's execute() resolved with a Response: the outer execute returns it
SubAgentReturnsResponse(c, elapsed) ==
    /\ pc[c] = "done"
    /\ Len(frames[c]) > 0
    /\ outcome[c].kind = "returned"
    /\ IsResponse(outcome[c].value)
    /\ now' = now + elapsed
    /\ frames' = Pop(c)
    /\ yaml' = [yaml EXCEPT ![c] = Top(c).yaml]
    /\ executor' = [executor EXCEPT ![c] = Top(c).executor]
    /\ startTime' = [startTime EXCEPT ![c] = Top(c).startTime]
    /\ invoked' = [invoked EXCEPT ![c] = Top(c).invoked]
    /\ settled' = [settled EXCEPT ![c] =
            Append(Top(c).settled,
                   [index |-> Top(c).stepIndex, kind |-> "response", value |-> outcome[c].value])]
    /\ context' = [context EXCEPT ![c] =
            pushEvent(Top(c).context,
                StepCompleteEvent(TopStep(c), Top(c).stepIndex,
                    Len(Top(c).executor.steps), now', now' - Top(c).startTime))]
    /\ lastResult' = [lastResult EXCEPT ![c] = Top(c).lastResult]
    /\ stepIndex' = [stepIndex EXCEPT ![c] = Top(c).stepIndex]
    /\ UNCHANGED <<handlerRegistry, outcome, pc, sanVars, pureVars, registered, pushFails, tenantVars>>

\* the sub-agent's execute() rejected: the handler rejects with the same value
SubAgentThrows(c, elapsed) ==
    /\ pc[c] = "done"
    /\ Len(frames[c]) > 0
    /\ outcome[c].kind = "threw"
    /\ now' = now + elapsed
    /\ frames' = Pop(c)
    /\ yaml' = [yaml EXCEPT ![c] = Top(c).yaml]
    /\ executor' = [executor EXCEPT ![c] = Top(c).executor]
    /\ startTime' = [startTime EXCEPT ![c] = Top(c).startTime]
    /\ invoked' = [invoked EXCEPT ![c] = Top(c).invoked]
    /\ settled' = [settled EXCEPT ![c] =
            Append(Top(c).settled,
                   [index |-> Top(c).stepIndex, kind |-> "throw", value |-> outcome[c].value])]
    /\ context' = [context EXCEPT ![c] =
            pushEvent(Top(c).context,
                StepErrorEvent(TopStep(c), Top(c).stepIndex,
                    Len(Top(c).executor.steps), now', now' - Top(c).startTime, outcome[c].value))]
    /\ lastResult' = [lastResult EXCEPT ![c] = Top(c).lastResult]
    /\ stepIndex' = [stepIndex EXCEPT ![c] = Top(c).stepIndex]
    /\ UNCHANGED <<handlerRegistry, outcome, pc, sanVars, pureVars, registered, pushFails, tenantVars>>

\* outer workflows: a call-agent step, with or without a result name and an
\* input of its own, before or after an llm step; or the self-invoking agent
CallAgentWorkflows ==
    { <<LlmStep(1), CallStep(2, agent, input, result)>> :
        agent \in {<<"t","r","a","c","e","d">>, <<"p","l","a","i","n">>, <<"c","h","a","t","t","y">>},
        input \in {Undefined, Str(<<"$","i","n","p","u","t",".","u","s","e","r">>)},
        result \in {Undefined, Str(<<"s","u","b">>)} } \cup
    { <<CallStep(1, agent, Undefined, result), LlmStep(2)>> :
        agent \in {<<"t","r","a","c","e","d">>, <<"p","l","a","i","n">>}, result \in {Undefined, Str(<<"s","u","b">>)} } \cup
    { <<CallStep(1, <<"l","o","o","p">>, Undefined, Undefined)>> }

CallAgentInit ==
    /\ handlerRegistry = BuiltinRegistry
    /\ \E w \in CallAgentWorkflows, o \in {Undefined, Obj((<<"e","n","a","b","l","e","d">>) :> Bool(TRUE))} :
          /\ yaml = [c \in CallIds |->
                        [metadata |-> [name |-> <<"T","e","s","t">>, version |-> <<"1">>, observability |-> o],
                         workflow |-> w, return |-> Undefined]]
          /\ executor = [c \in CallIds |-> Constructor(yaml[c])]
    /\ pc = [c \in CallIds |-> IF c = 1 THEN "idle" ELSE "off"]
    /\ context = [c \in CallIds |-> NoContext]
    /\ stepIndex = [c \in CallIds |-> 0]
    /\ lastResult = [c \in CallIds |-> Null]
    /\ startTime = [c \in CallIds |-> 0]
    /\ outcome = [c \in CallIds |-> Pending]
    /\ invoked = [c \in CallIds |-> << >>]
    /\ settled = [c \in CallIds |-> << >>]
    /\ now = 0
    /\ registered = << >>
    /\ Quiescent
    /\ request = NoRequest
    /\ reply = Pending
    /\ thrown = Undefined
    /\ classified = "none"

CallAgentNext ==
    \/ \E c \in CallIds : Execute(c, InputOf(c))
    \/ \E c \in CallIds : InvokeHandler(c)
    \/ \E c \in CallIds, r \in LlmRecords, d \in SteadyElapsed : HandlerReturnsRecord(c, r, d)
    \/ \E c \in CallIds, d \in SteadyElapsed :
          pc[c] = "await" /\ RunningHandler(c) = "chatPrimitive" /\ HandlerReturnsResponse(c, d)
    \/ \E c \in CallIds, e \in ThrownValues, d \in SteadyElapsed :
          pc[c] = "await" /\ RunningHandler(c) = "llmPrimitive" /\ HandlerThrows(c, e, d)
    \/ \E c \in CallIds : Finish(c)
    \/ \E c \in CallIds : CallAgentExecutes(c)
    \/ \E c \in CallIds, d \in SteadyElapsed : SubAgentReturnsRecord(c, d)
    \/ \E c \in CallIds, d \in SteadyElapsed : SubAgentReturnsResponse(c, d)
    \/ \E c \in CallIds, d \in SteadyElapsed : SubAgentThrows(c, d)

CallAgentSpec == CallAgentInit /\ [][CallAgentNext]_vars

----------------------------------------------------------------------------
(* Claims about sub-agent composition *)

\* the step ids of the sub-agents' manifests; the outer manifests use s1, s2
SubAgentStepIds == { <<"s","u","b","1">>, <<"s","u","b","2">> }

EventsOf(trace) == IF trace.k = "array" THEN { trace.a[n] : n \in 1..Len(trace.a) } ELSE {}

\* the record execute() returned, if it returned one
ReturnedRecord(c) ==
    IF pc[c] = "done" /\ outcome[c].kind = "returned" /\ outcome[c].value.k = "object"
    THEN outcome[c].value.o ELSE << >>

\* the result names of the steps of this execution that settled with a record
StoredNames(c) ==
    { executor[c].steps[settled[c][n].index + 1].result.s :
        n \in { m \in 1..Len(settled[c]) :
                  /\ settled[c][m].kind = "record"
                  /\ Truthy(executor[c].steps[settled[c][m].index + 1].result) } }

\* C21: a call-agent sub-execution runs in its own context: no sub-agent trace
\* event is in the outer trace or in the outer result's __trace, no outer
\* event is in the sub-agent's trace, and the outer variables receive nothing
\* from it except the returned record under the outer step's result name.
C21_SubExecutionOwnContext ==
    \A c \in CallIds :
        /\ Len(frames[c]) = 0 =>
              /\ \A e \in EventsOf(context[c].trace) : e.stepId \notin SubAgentStepIds
              /\ <<"_","_","t","r","a","c","e">> \in DOMAIN ReturnedRecord(c) =>
                    \A e \in EventsOf(ReturnedRecord(c)[<<"_","_","t","r","a","c","e">>]) : e.stepId \notin SubAgentStepIds
              /\ DOMAIN context[c].variables = StoredNames(c)
              /\ \A n \in 1..Len(settled[c]) :
                    LET step == executor[c].steps[settled[c][n].index + 1]
                    IN  step.type = <<"c","a","l","l","-","a","g","e","n","t">> /\ settled[c][n].kind = "record" /\ Truthy(step.result) =>
                            context[c].variables[step.result.s] = settled[c][n].value
        /\ Len(frames[c]) > 0 =>
              /\ \A e \in EventsOf(context[c].trace) : e.stepId \in SubAgentStepIds
              /\ \A n \in 1..Len(frames[c]) :
                    \A e \in EventsOf(frames[c][n].context.trace) : e.stepId \notin SubAgentStepIds

\* the depth limit the executor is to enforce on nested call-agent executions
DepthLimit == 8

\* C26: nested call-agent execution is bounded by a per-invocation depth
\* limit: no execution is ever nested deeper than the limit (a manifest that
\* invokes itself fails once the depth would exceed it).
C26_NestingWithinDepthLimit ==
    \A c \in CallIds : Len(frames[c]) <= DepthLimit

----------------------------------------------------------------------------
(* Chat primitive: the UI-message stream of the Response it returns *)

ChatStepOf(n) == [id |-> StepId(n), type |-> <<"c","h","a","t">>, config |-> ConfigA, result |-> Undefined]

\* the contexts a chat step is called with: no trace, an empty one, the trace of
\* a first chat step, the trace of a chat step after an llm step
ChatContexts ==
    { [input |-> input, variables |-> << >>, trace |-> trace] :
        input \in Inputs,
        trace \in { Undefined,
                    Arr(<< >>),
                    Arr(<<StepStartEvent(ChatStepOf(1), 0, 1, 0)>>),
                    Arr(<<StepStartEvent([ChatStepOf(1) EXCEPT !.type = <<"l","l","m">>], 0, 2, 0),
                          StepCompleteEvent([ChatStepOf(1) EXCEPT !.type = <<"l","l","m">>], 0, 2, 1, 1),
                          StepStartEvent(ChatStepOf(2), 1, 2, 1)>>) } }

\* result.toUIMessageStream(): the parts the model's stream yields
ModelStreams ==
    { << >>,
      <<[type |-> "start"], [type |-> "finish"]>>,
      <<[type |-> "start"], [type |-> "error", errorText |-> <<"A","n"," ","e","r","r","o","r"," ","o","c","c","u","r","r","e","d",".">>]>>,
      <<[type |-> "start"], [type |-> "text-delta", delta |-> <<"H","i">>], [type |-> "finish"]>>,
      <<[type |-> "start"], [type |-> "text-delta", delta |-> <<"H","i">>],
        [type |-> "text-delta", delta |-> <<" ","A","n","n">>], [type |-> "finish"]>> }

\* context.trace && context.trace.length > 0
hasTrace(ctx) == ctx.trace # Undefined /\ Len(ctx.trace.a) > 0

TracePart(ctx) ==
    [type |-> "data-trace", id |-> "workflow-trace",
     data |-> [events |-> ctx.trace], transient |-> TRUE]

\* fault injection: the part is written whenever a trace is present, empty or not
chatPrimitiveTracePresent(config, ctx, model) ==
    IF ctx.trace # Undefined
    THEN [branch |-> "createUIMessageStream", written |-> <<TracePart(ctx)>>, merging |-> model]
    ELSE [branch |-> "toUIMessageStreamResponse", written |-> << >>, merging |-> model]

\* the stream of the returned Response: what has been written to it and the
\* model's stream that is still being merged into it
chatPrimitive(config, ctx, model) ==
    IF hasTrace(ctx)
    THEN [branch |-> "createUIMessageStream", written |-> <<TracePart(ctx)>>, merging |-> model]
    ELSE [branch |-> "toUIMessageStreamResponse", written |-> << >>, merging |-> model]

ChatInit ==
    /\ request \in { [fn |-> "chatPrimitive", config |-> config, context |-> ctx, model |-> model] :
                        config \in {ConfigA, ConfigB}, ctx \in ChatContexts, model \in ModelStreams }
    /\ reply = Pending
    /\ registered = << >>
    /\ Quiescent
    /\ handlerRegistry = BuiltinRegistry
    /\ yaml = [c \in CallIds |-> [metadata |-> [name |-> <<"T","e","s","t">>, version |-> <<"1">>, observability |-> Undefined],
                                  workflow |-> << >>, return |-> Undefined]]
    /\ executor = [c \in CallIds |-> Constructor(yaml[c])]
    /\ pc = [c \in CallIds |-> "off"]
    /\ context = [c \in CallIds |-> NoContext]
    /\ stepIndex = [c \in CallIds |-> 0]
    /\ lastResult = [c \in CallIds |-> Null]
    /\ startTime = [c \in CallIds |-> 0]
    /\ outcome = [c \in CallIds |-> Pending]
    /\ invoked = [c \in CallIds |-> << >>]
    /\ settled = [c \in CallIds |-> << >>]
    /\ now = 0
    /\ thrown = Undefined
    /\ classified = "none"

\* await chatPrimitive(config, context) resolves with the streaming Response
ChatReturnsResponse ==
    /\ request.fn = "chatPrimitive"
    /\ reply = Pending
    /\ reply' = [kind |-> "returned",
                 stream |-> chatPrimitive(request.config, request.context, request.model)]
    /\ UNCHANGED <<handlerRegistry, registered, execVars, sanVars, request, agentVars, tenantVars>>

\* the model's stream yields its next part into the Response's stream
ModelStreamYields ==
    /\ request.fn = "chatPrimitive"
    /\ reply # Pending
    /\ Len(reply.stream.merging) > 0
    /\ reply' = [reply EXCEPT !.stream.written = Append(@, Head(reply.stream.merging)),
                              !.stream.merging = Tail(@)]
    /\ UNCHANGED <<handlerRegistry, registered, execVars, sanVars, request, agentVars, tenantVars>>

ChatNext == ChatReturnsResponse \/ ModelStreamYields

ChatSpec == ChatInit /\ [][ChatNext]_vars

\* the positions of the stream that hold a data-trace part
TraceParts(written) == { n \in 1..Len(written) : written[n].type = "data-trace" }

\* the parts of the model's stream that have been yielded so far
Yielded == SubSeq(request.model, 1, Len(request.model) - Len(reply.stream.merging))

\* C22: called with a present, non-empty context.trace, the chat primitive
\* returns a stream with exactly one data-trace part, transient, holding the
\* trace events and written before every part of the model's stream; called
\* with an absent or empty trace, the stream is the model's stream alone.
C22_TracePartFirstOrAbsent ==
    (request.fn = "chatPrimitive" /\ reply # Pending) =>
        IF request.context.trace # Undefined /\ request.context.trace.a # << >>
        THEN /\ TraceParts(reply.stream.written) = {1}
             /\ reply.stream.written[1] =
                    [type |-> "data-trace", id |-> "workflow-trace",
                     data |-> [events |-> request.context.trace], transient |-> TRUE]
             /\ Tail(reply.stream.written) = Yielded
        ELSE /\ TraceParts(reply.stream.written) = {}
             /\ reply.stream.written = Yielded

\* a traced chat step after an llm step: the part, then the whole model stream
C22_Witness ==
    /\ request.fn = "chatPrimitive" /\ reply # Pending
    /\ request.context.trace # Undefined /\ Len(request.context.trace.a) = 3
    /\ Len(reply.stream.written) = 5
    /\ reply.stream.merging = << >>

----------------------------------------------------------------------------
(* YAML loader: loadYaml(path) parses the file with the failsafe schema and   *)
(* validates the manifest; the result is what an executor is constructed from *)

\* nodes of a YAML document; the tag "?" stands for a node without a tag
Scalar(text) == [kind |-> "scalar", tag |-> "?", text |-> text]
Sequence(items) == [kind |-> "sequence", tag |-> "?", items |-> items]
Mapping(entries) == [kind |-> "mapping", tag |-> "?", entries |-> entries]
Tagged(tag, node) == [node EXCEPT !.tag = tag]

\* the tags of the failsafe schema, by node kind
FailsafeTags ==
    [scalar |-> {"?", "!!str"}, sequence |-> {"?", "!!seq"}, mapping |-> {"?", "!!map"}]

\* fault injection: a schema that also knows the JavaScript and core scalar types
FullSchemaResolves(node) ==
    node.tag \in FailsafeTags[node.kind] \cup
        (IF node.kind = "scalar" THEN {"!!js/function", "!!js/regexp", "!!int", "!!bool"} ELSE {})

\* the schema has a type for the node's tag
SchemaResolves(node) == node.tag \in FailsafeTags[node.kind]

RECURSIVE Rejected(_)
\* the parser throws on this node or on one below it (unknown tag)
Rejected(node) ==
    \/ ~SchemaResolves(node)
    \/ node.kind = "sequence" /\ \E n \in 1..Len(node.items) : Rejected(node.items[n])
    \/ node.kind = "mapping" /\ \E key \in DOMAIN node.entries : Rejected(node.entries[key])

RECURSIVE construct(_)
\* the JavaScript value the type of the node's tag constructs
construct(node) ==
    CASE node.kind = "sequence" -> Arr([n \in 1..Len(node.items) |-> construct(node.items[n])])
      [] node.kind = "mapping" -> Obj([key \in DOMAIN node.entries |-> construct(node.entries[key])])
      [] node.tag = "!!js/function" -> Function(node.text)
      [] node.tag = "!!js/regexp" -> [k |-> "regexp", source |-> node.text]
      [] node.tag = "!!int" -> Num(1)
      [] node.tag = "!!bool" -> Bool(node.text = <<"t","r","u","e">>)
      [] OTHER -> Str(node.text)

IsStepValue(v) ==
    /\ v.k = "object"
    /\ {<<"i","d">>, <<"t","y","p","e">>} \subseteq DOMAIN v.o
    /\ v.o[<<"i","d">>].k = "string" /\ v.o[<<"t","y","p","e">>].k = "string"

\* the manifest is a mapping with a metadata mapping and a workflow sequence
\* whose steps have an id and a type each, no id twice
ValidManifest(v) ==
    /\ v.k = "object"
    /\ {<<"m","e","t","a","d","a","t","a">>, <<"w","o","r","k","f","l","o","w">>} \subseteq DOMAIN v.o
    /\ v.o[<<"m","e","t","a","d","a","t","a">>].k = "object"
    /\ {<<"n","a","m","e">>, <<"v","e","r","s","i","o","n">>} \subseteq DOMAIN v.o[<<"m","e","t","a","d","a","t","a">>].o
    /\ v.o[<<"w","o","r","k","f","l","o","w">>].k = "array"
    /\ \A n \in 1..Len(v.o[<<"w","o","r","k","f","l","o","w">>].a) : IsStepValue(v.o[<<"w","o","r","k","f","l","o","w">>].a[n])
    /\ \A n, m \in 1..Len(v.o[<<"w","o","r","k","f","l","o","w">>].a) :
          v.o[<<"w","o","r","k","f","l","o","w">>].a[n].o[<<"i","d">>] = v.o[<<"w","o","r","k","f","l","o","w">>].a[m].o[<<"i","d">>] => n = m

\* loadYaml(path): the loaded value, or the error it rejects with
loadYaml(doc) ==
    IF Rejected(doc) THEN Threw(ErrorObj(<<"Y","A","M","L","E","x","c","e","p","t","i","o","n">>, <<"u","n","k","n","o","w","n"," ","t","a","g">>))
    ELSE IF ~ValidManifest(construct(doc)) THEN Threw(ErrorObj(<<"E","r","r","o","r">>, <<"I","n","v","a","l","i","d"," ","m","a","n","i","f","e","s","t">>))
    ELSE Returned(construct(doc))

\* the loaded value as the ParsedYaml the executor reads
AsParsedYaml(v) ==
    [metadata |-> [name |-> v.o[<<"m","e","t","a","d","a","t","a">>].o[<<"n","a","m","e">>].s,
                   version |-> v.o[<<"m","e","t","a","d","a","t","a">>].o[<<"v","e","r","s","i","o","n">>].s,
                   observability |-> ConfigGet(v.o[<<"m","e","t","a","d","a","t","a">>], <<"o","b","s","e","r","v","a","b","i","l","i","t","y">>)],
     workflow |-> [n \in 1..Len(v.o[<<"w","o","r","k","f","l","o","w">>].a) |->
                     [id |-> v.o[<<"w","o","r","k","f","l","o","w">>].a[n].o[<<"i","d">>].s,
                      type |-> v.o[<<"w","o","r","k","f","l","o","w">>].a[n].o[<<"t","y","p","e">>].s,
                      config |-> ConfigGet(v.o[<<"w","o","r","k","f","l","o","w">>].a[n], <<"c","o","n","f","i","g">>),
                      result |-> ConfigGet(v.o[<<"w","o","r","k","f","l","o","w">>].a[n], <<"r","e","s","u","l","t">>)]],
     return |-> ConfigGet(v, <<"r","e","t","u","r","n">>)]

\* tags a document can carry that the failsafe schema does not know
UnknownTags ==
    [scalar |-> {"!!js/function", "!!js/regexp", "!!js/undefined", "!!python/object",
                 "!custom", "!!int", "!!bool", "!!binary"},
     sequence |-> {"!!omap", "!custom"},
     mapping |-> {"!!set", "!!python/object", "!custom"}]

StepNode(n, type, model, result) ==
    Mapping((<<"i","d">>) :> Scalar(StepId(n)) @@ (<<"t","y","p","e">>) :> Scalar(type) @@
            (<<"c","o","n","f","i","g">>) :> Mapping((<<"m","o","d","e","l">>) :> model) @@
            (IF result = <<>> THEN << >> ELSE (<<"r","e","s","u","l","t">>) :> Scalar(result)))

ManifestNode(name, observability, steps, extra) ==
    Mapping((<<"m","e","t","a","d","a","t","a">>) :>
                Mapping((<<"n","a","m","e">>) :> name @@ (<<"v","e","r","s","i","o","n">>) :> Scalar(<<"1",".","0",".","0">>) @@
                        (IF observability = <<>> THEN << >>
                         ELSE (<<"o","b","s","e","r","v","a","b","i","l","i","t","y">>) :> Mapping((<<"e","n","a","b","l","e","d">>) :> Scalar(observability)))) @@
            (<<"w","o","r","k","f","l","o","w">>) :> steps @@ extra)

\* the step lists of the manifests, the model of the first step being any node
WorkflowNodes(model) ==
    { Sequence(<< >>),
      Sequence(<<StepNode(1, <<"l","l","m">>, model, <<"a">>)>>),
      Sequence(<<StepNode(1, <<"l","l","m">>, model, <<>>), StepNode(2, <<"c","u","s","t","o","m">>, Scalar(<<"m","1">>), <<"b">>)>>) }

ExtraEntries ==
    { << >>,
      (<<"r","e","t","u","r","n">>) :> Mapping((<<"o","k">>) :> Scalar(<<"t","r","u","e">>)),
      (<<"r","e","t","u","r","n">>) :> Scalar(<<"d","o","n","e">>) }

\* manifests as their authors write them
PlainDocuments ==
    { ManifestNode(Scalar(<<"F","i","l","e"," ","A","g","e","n","t">>), observability, steps, extra) :
        observability \in {<<>>, <<"t","r","u","e">>, <<"f","a","l","s","e">>},
        steps \in WorkflowNodes(Scalar(<<"m","1">>)),
        extra \in ExtraEntries }

\* documents with explicit tags: those of the failsafe schema and unknown ones,
\* on a top-level entry, on the metadata name, on a step's config value, on the
\* step list and on the document itself
TaggedDocuments ==
    { ManifestNode(Scalar(<<"T">>), <<>>, Sequence(<< >>), (<<"u","n","s","a","f","e">>) :> Tagged(tag, Scalar(<<"f","u","n","c","t","i","o","n","(",")"," ","{"," ","r","e","t","u","r","n"," ","\"","h","a","c","k","e","d","\"",";"," ","}">>))) :
        tag \in UnknownTags.scalar \cup {"!!str"} } \cup
    { ManifestNode(Tagged(tag, Scalar(<<"T">>)), <<"t","r","u","e">>, steps, << >>) :
        tag \in UnknownTags.scalar \cup {"!!str"}, steps \in WorkflowNodes(Scalar(<<"m","1">>)) } \cup
    { ManifestNode(Scalar(<<"T">>), <<>>, steps, << >>) :
        steps \in UNION { WorkflowNodes(Tagged(tag, Scalar(<<"m","1">>))) : tag \in UnknownTags.scalar } } \cup
    { ManifestNode(Scalar(<<"T">>), <<>>, Tagged(tag, Sequence(<<StepNode(1, <<"l","l","m">>, Scalar(<<"m","1">>), <<"a">>)>>)), << >>) :
        tag \in UnknownTags.sequence \cup {"!!seq"} } \cup
    { Tagged(tag, ManifestNode(Scalar(<<"T">>), <<>>, Sequence(<< >>), << >>)) :
        tag \in UnknownTags.mapping \cup {"!!map"} }

\* documents that parse but are not manifests
InvalidDocuments ==
    { Scalar(<<"h","e","l","l","o">>),
      Sequence(<<Scalar(<<"a">>)>>),
      Mapping((<<"w","o","r","k","f","l","o","w">>) :> Sequence(<< >>)),
      Mapping((<<"m","e","t","a","d","a","t","a">>) :> Mapping((<<"n","a","m","e">>) :> Scalar(<<"T">>) @@ (<<"v","e","r","s","i","o","n">>) :> Scalar(<<"1">>))),
      ManifestNode(Scalar(<<"T">>), <<>>, Scalar(<<"n","o","n","e">>), << >>),
      ManifestNode(Scalar(<<"T">>), <<>>, Sequence(<<Mapping((<<"i","d">>) :> Scalar(<<"s","1">>))>>), << >>),
      ManifestNode(Scalar(<<"T">>), <<>>, Sequence(<<StepNode(1, <<"l","l","m">>, Scalar(<<"m","1">>), <<>>),
                                                 StepNode(1, <<"l","l","m">>, Scalar(<<"m","1">>), <<>>)>>), << >>) }

Documents == PlainDocuments \cup TaggedDocuments \cup InvalidDocuments

LoaderInit ==
    /\ request \in { [fn |-> "loadYaml", doc |-> doc] : doc \in Documents }
    /\ reply = Pending
    /\ registered = << >>
    /\ Quiescent
    /\ handlerRegistry = BuiltinRegistry
    /\ yaml = [c \in CallIds |-> [metadata |-> [name |-> <<"T","e","s","t">>, version |-> <<"1">>, observability |-> Undefined],
                                  workflow |-> << >>, return |-> Undefined]]
    /\ executor = [c \in CallIds |-> Constructor(yaml[c])]
    /\ pc = [c \in CallIds |-> "off"]
    /\ context = [c \in CallIds |-> NoContext]
    /\ stepIndex = [c \in CallIds |-> 0]
    /\ lastResult = [c \in CallIds |-> Null]
    /\ startTime = [c \in CallIds |-> 0]
    /\ outcome = [c \in CallIds |-> Pending]
    /\ invoked = [c \in CallIds |-> << >>]
    /\ settled = [c \in CallIds |-> << >>]
    /\ now = 0
    /\ thrown = Undefined
    /\ classified = "none"

\* await loadYaml(path) settles
LoadYaml ==
    /\ request.fn = "loadYaml"
    /\ reply = Pending
    /\ reply' = loadYaml(request.doc)
    /\ UNCHANGED <<handlerRegistry, registered, execVars, sanVars, request, agentVars, tenantVars>>

\* new WorkflowExecutor(yaml) on the loaded manifest
NewExecutor(c) ==
    /\ request.fn = "loadYaml"
    /\ reply.kind = "returned"
    /\ c = 1
    /\ pc[c] = "off"
    /\ yaml' = [yaml EXCEPT ![c] = AsParsedYaml(reply.value)]
    /\ executor' = [executor EXCEPT ![c] = Constructor(AsParsedYaml(reply.value))]
    /\ pc' = [pc EXCEPT ![c] = "idle"]
    /\ UNCHANGED <<handlerRegistry, registered, context, stepIndex, lastResult, startTime,
                   outcome, invoked, settled, now, sanVars, pureVars, agentVars, tenantVars>>

LoaderNext ==
    \/ LoadYaml
    \/ \E c \in CallIds : NewExecutor(c)
    \/ \E c \in CallIds : Execute(c, InputOf(c))
    \/ \E c \in CallIds : UnknownStepType(c)
    \/ \E c \in CallIds : InvokeHandler(c)
    \/ \E c \in CallIds, r \in LlmRecords, d \in SteadyElapsed : HandlerReturnsRecord(c, r, d)
    \/ \E c \in CallIds, e \in ThrownValues, d \in SteadyElapsed : HandlerThrows(c, e, d)
    \/ \E c \in CallIds : Finish(c)

LoaderSpec == LoaderInit /\ [][LoaderNext]_vars

----------------------------------------------------------------------------
(* Claims about the loader *)

RECURSIVE DocumentTags(_)
\* every tag written in the document
DocumentTags(node) ==
    {node.tag} \cup
    (CASE node.kind = "sequence" -> UNION { DocumentTags(node.items[n]) : n \in 1..Len(node.items) }
       [] node.kind = "mapping" -> UNION { DocumentTags(node.entries[key]) : key \in DOMAIN node.entries }
       [] OTHER -> {})

\* string, sequence, mapping, and the untagged scalar
RestrictedTags == {"?", "!!str", "!!seq", "!!map"}

RECURSIVE PlainData(_)
\* strings, arrays and plain objects all the way down: no function, no object
\* that brings methods of its own
PlainData(v) ==
    CASE v.k = "string" -> TRUE
      [] v.k = "array" -> \A n \in 1..Len(v.a) : PlainData(v.a[n])
      [] v.k = "object" -> \A key \in DOMAIN v.o : PlainData(v.o[key])
      [] OTHER -> FALSE

\* C24: loading a YAML document that contains a tag outside the restricted set
\* (string, sequence, mapping, untagged scalar) fails with an error, and no
\* load yields a manifest that holds a function value or an object with
\* caller-controlled methods.
C24_UnknownTagFails ==
    (request.fn = "loadYaml" /\ reply # Pending) =>
        /\ ~(DocumentTags(request.doc) \subseteq RestrictedTags) => reply.kind = "threw"
        /\ reply.kind = "returned" => PlainData(reply.value)

\* the document of the parser test: a !!js/function scalar, rejected
C24_Witness ==
    /\ request.fn = "loadYaml"
    /\ "!!js/function" \in DocumentTags(request.doc)
    /\ reply.kind = "threw"

\* the document is a mapping whose workflow is the empty sequence
EmptyWorkflow(doc) ==
    /\ doc.kind = "mapping"
    /\ <<"w","o","r","k","f","l","o","w">> \in DOMAIN doc.entries
    /\ doc.entries[<<"w","o","r","k","f","l","o","w">>].kind = "sequence"
    /\ doc.entries[<<"w","o","r","k","f","l","o","w">>].items = << >>

\* the same document with one step in its workflow
WithOneStep(doc) ==
    [doc EXCEPT !.entries[<<"w","o","r","k","f","l","o","w">>].items = <<StepNode(1, <<"l","l","m">>, Scalar(<<"m","1">>), <<>>)>>]

\* what an execution without steps returns: the return template, wrapped
\* unless it is a mapping, or the empty record
ZeroStepResult(template) ==
    CASE template = Undefined -> Obj(<< >>)
      [] template.k = "object" -> template
      [] OTHER -> Obj((<<"v","a","l","u","e">>) :> template)

----------------------------------------------------------------------------
(* TenantManager: initializeTenant, getTenantApp and removeTenant on one      *)
(* manager; provider holds the provider's type and the ids in its tenants map *)

TenantIds == { <<"a","a","a">>, <<"b","b","b">>, <<"a","b">> }
ProviderTypes == { "memory", "firebase", "supabase" }
RetentionDays == { 0, 30, 90 }

\* the configurations initializeTenant is called with; complete says whether
\* providerConfig has projectId, databaseURL and storageBucket
TenantConfigs ==
    [tenantId : TenantIds, provider : ProviderTypes, dataRetentionDays : RetentionDays,
     complete : BOOLEAN]

\* validateTenantConfig: the error it throws, "none" if it returns
validateTenantConfig(config) ==
    IF Len(config.tenantId) < 3 THEN "ValidationError"
    ELSE IF config.dataRetentionDays # 0 /\ config.dataRetentionDays < 90 THEN "ValidationError"
    ELSE "none"

\* createProvider(type): a provider with no tenants; for an unknown type it
\* throws ValidationError and there is no provider (type "unsupported")
createProvider(type) ==
    IF type \in {"firebase", "memory"} THEN [type |-> type, tenants |-> {}]
    ELSE [type |-> "unsupported", tenants |-> {}]

\* provider.initialize(config): the error it throws, "none" if the tenant is added
ProviderInitialize(p, config) ==
    IF p.type = "firebase" /\ ~config.complete THEN "ValidationError"
    ELSE IF config.tenantId \in p.tenants THEN "TenantAlreadyExistsError"
    ELSE "none"

\* the provider the manager holds once `Create or reuse provider` has run
ProviderFor(config) ==
    IF provider = NoProvider \/ provider.type # config.provider
    THEN createProvider(config.provider)
    ELSE provider

\* the error initializeTenant rejects with, "none" if it resolves
InitializeError(config) ==
    IF validateTenantConfig(config) # "none" THEN validateTenantConfig(config)
    ELSE IF ProviderFor(config).type = "unsupported" THEN "ValidationError"
    ELSE IF config.tenantId \in ProviderFor(config).tenants THEN "TenantAlreadyExistsError"
    ELSE ProviderInitialize(ProviderFor(config), config)

Failed(error) == [kind |-> "threw", error |-> error]

\* await manager.initializeTenant(config)
initializeTenant(config) ==
    /\ request' = [fn |-> "initializeTenant", config |-> config, tenantId |-> config.tenantId,
                   before |-> initialized]
    /\ reply' = IF InitializeError(config) = "none"
                THEN [kind |-> "returned", success |-> TRUE, tenantId |-> config.tenantId]
                ELSE Failed(InitializeError(config))
    /\ provider' =
          IF validateTenantConfig(config) # "none" \/ ProviderFor(config).type = "unsupported"
          THEN provider
          ELSE IF InitializeError(config) = "none"
          THEN [ProviderFor(config) EXCEPT !.tenants = @ \cup {config.tenantId}]
          ELSE ProviderFor(config)
    /\ tenantConfigs' = IF InitializeError(config) = "none"
                        THEN tenantConfigs \cup {config.tenantId} ELSE tenantConfigs
    /\ initialized' = IF InitializeError(config) = "none"
                      THEN initialized \cup {config.tenantId} ELSE initialized
    /\ UNCHANGED <<handlerRegistry, registered, execVars, sanVars, frames, pushFails>>

\* manager.getTenantApp(tenantId)
getTenantApp(tenantId) ==
    /\ request' = [fn |-> "getTenantApp", tenantId |-> tenantId, before |-> initialized]
    /\ reply' = IF provider = NoProvider THEN Failed("ValidationError")
                ELSE IF tenantId \notin provider.tenants THEN Failed("NotFoundError")
                ELSE [kind |-> "returned", success |-> TRUE, tenantId |-> tenantId]
    /\ UNCHANGED <<handlerRegistry, registered, execVars, sanVars, agentVars, tenantVars>>

\* await manager.removeTenant(tenantId)
removeTenant(tenantId) ==
    /\ request' = [fn |-> "removeTenant", tenantId |-> tenantId, before |-> initialized]
    /\ reply' = IF provider = NoProvider THEN Failed("ValidationError")
                ELSE IF tenantId \notin provider.tenants THEN Failed("NotFoundError")
                ELSE [kind |-> "returned", success |-> TRUE, tenantId |-> tenantId]
    /\ IF provider # NoProvider /\ tenantId \in provider.tenants
       THEN /\ provider' = [provider EXCEPT !.tenants = @ \ {tenantId}]
            /\ tenantConfigs' = tenantConfigs \ {tenantId}
            /\ initialized' = initialized \ {tenantId}
       ELSE UNCHANGED tenantVars
    /\ UNCHANGED <<handlerRegistry, registered, execVars, sanVars, frames, pushFails>>

TenantInit ==
    /\ request = NoRequest
    /\ reply = Pending
    /\ registered = << >>
    /\ Quiescent
    /\ handlerRegistry = BuiltinRegistry
    /\ yaml = [c \in CallIds |-> [metadata |-> [name |-> <<"T","e","s","t">>, version |-> <<"1">>, observability |-> Undefined],
                                  workflow |-> << >>, return |-> Undefined]]
    /\ executor = [c \in CallIds |-> Constructor(yaml[c])]
    /\ pc = [c \in CallIds |-> "off"]
    /\ context = [c \in CallIds |-> NoContext]
    /\ stepIndex = [c \in CallIds |-> 0]
    /\ lastResult = [c \in CallIds |-> Null]
    /\ startTime = [c \in CallIds |-> 0]
    /\ outcome = [c \in CallIds |-> Pending]
    /\ invoked = [c \in CallIds |-> << >>]
    /\ settled = [c \in CallIds |-> << >>]
    /\ now = 0
    /\ thrown = Undefined
    /\ classified = "none"

TenantNext ==
    \/ \E config \in TenantConfigs : initializeTenant(config)
    \/ \E tenantId \in TenantIds : getTenantApp(tenantId)
    \/ \E tenantId \in TenantIds : removeTenant(tenantId)

TenantSpec == TenantInit /\ [][TenantNext]_vars

\* C25: for any sequence of initializeTenant and removeTenant calls on one
\* manager, getTenantApp retrieves a tenant exactly when its most recent
\* successful initializeTenant has not been followed by a removeTenant;
\* initializeTenant on a tenant that is initialized fails with
\* TenantAlreadyExistsError, and getTenantApp on a removed or never
\* initialized tenant throws NotFoundError (on a manager that has a provider;
\* without one getProvider throws ValidationError, as documented).
C25_RetrievableIffInitialized ==
    /\ \A tenantId \in TenantIds :
          (provider # NoProvider /\ tenantId \in provider.tenants) <=> tenantId \in initialized
    /\ (request.fn = "getTenantApp" /\ provider # NoProvider) =>
          IF request.tenantId \in request.before
          THEN reply.kind = "returned"
          ELSE reply = [kind |-> "threw", error |-> "NotFoundError"]
    /\ (/\ request.fn = "initializeTenant"
        /\ request.tenantId \in request.before
        /\ request.config.dataRetentionDays \in {0, 90}
        /\ request.config.provider \in {"memory", "firebase"}
        /\ request.config.complete) =>
          reply = [kind |-> "threw", error |-> "TenantAlreadyExistsError"]

----------------------------------------------------------------------------
(* Further claims about the executor *)

\* execute() failed at the loop head of step stepIndex[c]: that step was never invoked
FailedAtLoopHead(c) ==
    /\ pc[c] = "done"
    /\ outcome[c].kind = "threw"
    /\ stepIndex[c] < Len(executor[c].steps)
    /\ Len(invoked[c]) = stepIndex[c]

ChatHandlerRunning(c) ==
    /\ pc[c] = "await"
    /\ executor[c].observabilityEnabled
    /\ CurrentStep(c).type = <<"c","h","a","t">>

\* C29: with observability enabled, the trace the handler of a chat step at
\* index k reads when it is invoked has exactly 2k+1 events: step-start and
\* step-complete for each of the steps 0..k-1, then the step-start of step k
\* and no step-complete of step k; so the chat step takes the branch that
\* writes the trace part before the model's stream.
C29_ChatReadsStartedTrace ==
    \A c \in CallIds :
        ChatHandlerRunning(c) =>
            /\ RunningHandler(c) = "chatPrimitive"
            /\ context[c].trace # Undefined
            /\ Len(context[c].trace.a) = 2 * stepIndex[c] + 1
            /\ \A n \in 1..Len(context[c].trace.a) :
                  /\ context[c].trace.a[n].stepIndex = (n - 1) \div 2
                  /\ context[c].trace.a[n].stepId = executor[c].steps[((n - 1) \div 2) + 1].id
                  /\ context[c].trace.a[n].type =
                        (IF n % 2 = 1 THEN "step-start" ELSE "step-complete")
            /\ hasTrace(context[c])
            /\ \A model \in ModelStreams :
                  /\ chatPrimitive(CurrentStep(c).config, context[c], model).branch = "createUIMessageStream"
                  /\ chatPrimitive(CurrentStep(c).config, context[c], model).written[1].data.events =
                        context[c].trace

\* a chat step invoked after a completed first step
C29_Witness ==
    /\ ChatHandlerRunning(1)
    /\ stepIndex[1] = 1
    /\ Len(context[1].trace.a) = 3

----------------------------------------------------------------------------
(* One manifest executed without and then with observability, on the same     *)
(* input and with handlers that settle the same way; pushes may fail          *)

\* manifests of record-returning steps, observability not requested
BlockingManifests ==
    { y \in Manifests({ConfigA}) :
        /\ y.metadata.observability = Undefined
        /\ \A n \in 1..Len(y.workflow) : y.workflow[n].type \in {<<"l","l","m">>, <<"c","u","s","t","o","m">>} }

Observed(y) == [y EXCEPT !.metadata.observability = Obj((<<"e","n","a","b","l","e","d">>) :> Bool(TRUE))]

ObservedInit ==
    /\ handlerRegistry = BuiltinRegistry
    /\ \E y \in BlockingManifests :
          /\ yaml = [c \in CallIds |-> IF c = 1 THEN y ELSE Observed(y)]
          /\ executor = [c \in CallIds |-> Constructor(yaml[c])]
    /\ pc = [c \in CallIds |-> "idle"]
    /\ context = [c \in CallIds |-> NoContext]
    /\ stepIndex = [c \in CallIds |-> 0]
    /\ lastResult = [c \in CallIds |-> Null]
    /\ startTime = [c \in CallIds |-> 0]
    /\ outcome = [c \in CallIds |-> Pending]
    /\ invoked = [c \in CallIds |-> << >>]
    /\ settled = [c \in CallIds |-> << >>]
    /\ now = 0
    /\ registered = << >>
    /\ Quiescent
    /\ request = NoRequest
    /\ reply = Pending
    /\ thrown = Undefined
    /\ classified = "none"

\* context.trace.push starts or stops throwing
PushFailure ==
    /\ pc[2] \in {"loop", "await"}
    /\ pushFails' = ~pushFails
    /\ UNCHANGED <<handlerRegistry, registered, execVars, sanVars, pureVars, frames, tenantVars>>

\* how the handler of the step call 2 awaits settled in call 1
Replayed == settled[1][Len(settled[2]) + 1]

ObservedNext ==
    \/ \E t \in RegisterableTypes, h \in RegisterableHandlers :
          pc[1] = "idle" /\ registerPrimitive(t, h)
    \/ \E input \in Inputs : Execute(1, input)
    \/ pc[1] = "done" /\ Execute(2, context[1].input)
    \/ \E c \in CallIds : UnknownStepType(c)
    \/ \E c \in CallIds : InvokeHandler(c)
    \/ \E r \in LlmRecords \cup CustomRecords, d \in SteadyElapsed : HandlerReturnsRecord(1, r, d)
    \/ \E e \in ThrownValues, d \in SteadyElapsed : HandlerThrows(1, e, d)
    \/ \E d \in SteadyElapsed :
          /\ pc[2] = "await" /\ Len(settled[1]) > Len(settled[2]) /\ Replayed.kind = "record"
          /\ HandlerReturnsRecord(2, Replayed.value, d)
    \/ \E d \in SteadyElapsed :
          /\ pc[2] = "await" /\ Len(settled[1]) > Len(settled[2]) /\ Replayed.kind = "throw"
          /\ HandlerThrows(2, Replayed.value, d)
    \/ \E c \in CallIds : Finish(c)
    \/ PushFailure

ObservedSpec == ObservedInit /\ [][ObservedNext]_vars

\* C28: enabling observability does not change the outcome of a blocking
\* execution: on the same manifest and input, with handlers that settle the
\* same way, the execution with observability throws the same value, or
\* returns the record returned without observability with nothing changed
\* but the added __trace key; also when pushes of trace events fail.
C28_ObservabilityKeepsOutcome ==
    /\ pc[2] = "await" => Len(settled[1]) > Len(settled[2])
    /\ Done(2) =>
          /\ outcome[2].kind = outcome[1].kind
          /\ outcome[1].kind = "threw" => outcome[2] = outcome[1]
          /\ outcome[1].kind = "returned" =>
                /\ WithoutTrace(outcome[2].value) = outcome[1].value.o
                /\ <<"_","_","t","r","a","c","e">> \in DOMAIN outcome[2].value.o =>
                      outcome[2].value.o[<<"_","_","t","r","a","c","e">>] = context[2].trace

----------------------------------------------------------------------------
(* Executions over the built-in handlers that write variables: llm steps and *)
(* output-generator steps under every combination of result name and json    *)

NamedSteps(n) ==
    { [id |-> StepId(n), type |-> <<"l","l","m">>, config |-> ConfigA, result |-> result] :
        result \in { Undefined, Str(<<>>), Str(<<"a">>), Str(<<"j","s","o","n">>) } } \cup
    { [id |-> StepId(n), type |-> <<"o","u","t","p","u","t","-","g","e","n","e","r","a","t","o","r">>, config |-> OutputConfig(json, tpl),
       result |-> result] :
        json \in { Undefined, Str(<<>>), Str(<<"$","s","t","e","p","R","e","s","u","l","t",".","a",".","t","e","x","t">>), Str(<<"n","o","t"," ","j","s","o","n">>) },
        tpl \in { Undefined, Obj((<<"t","a","g","s">>) :> Str(<<"$","j","s","o","n",".","t","a","g","s">>)) },
        result \in { Undefined, Str(<<"a">>), Str(<<"b">>) } } \cup
    { ChatStep(n) }

NamedWorkflows ==
    UNION { { w \in [1..n -> UNION { NamedSteps(m) : m \in 1..n }] :
                \A m \in 1..n : w[m].id = StepId(m) } : n \in 1..MaxSteps }

VariablesInit ==
    /\ handlerRegistry = BuiltinRegistry
    /\ \E w \in NamedWorkflows :
          /\ yaml = [c \in CallIds |->
                        [metadata |-> [name |-> <<"T","e","s","t">>, version |-> <<"1">>, observability |-> Undefined],
                         workflow |-> w, return |-> Undefined]]
          /\ executor = [c \in CallIds |-> Constructor(yaml[c])]
    /\ pc = [c \in CallIds |-> IF c = 1 THEN "idle" ELSE "off"]
    /\ context = [c \in CallIds |-> NoContext]
    /\ stepIndex = [c \in CallIds |-> 0]
    /\ lastResult = [c \in CallIds |-> Null]
    /\ startTime = [c \in CallIds |-> 0]
    /\ outcome = [c \in CallIds |-> Pending]
    /\ invoked = [c \in CallIds |-> << >>]
    /\ settled = [c \in CallIds |-> << >>]
    /\ now = 0
    /\ registered = << >>
    /\ Quiescent
    /\ request = NoRequest
    /\ reply = Pending
    /\ thrown = Undefined
    /\ classified = "none"

VariablesNext ==
    \/ \E c \in CallIds : Execute(c, InputOf(c))
    \/ \E c \in CallIds : InvokeHandler(c)
    \/ \E c \in CallIds, r \in LlmRecords \cup JsonTextRecords, d \in SteadyElapsed :
          HandlerReturnsRecord(c, r, d)
    \/ \E c \in CallIds, d \in SteadyElapsed : OutputHandlerReturns(c, d)
    \/ \E c \in CallIds, d \in SteadyElapsed : HandlerReturnsResponse(c, d)
    \/ \E c \in CallIds, d \in SteadyElapsed : HandlerThrows(c, Str(<<"t","i","m","e","o","u","t">>), d)
    \/ \E c \in CallIds : Finish(c)

VariablesSpec == VariablesInit /\ [][VariablesNext]_vars

\* the positions in settled[c] of the steps that completed with a record
Completed(c) == { n \in 1..Len(settled[c]) : settled[c][n].kind = "record" }

StepOf(c, n) == executor[c].steps[settled[c][n].index + 1]

\* the completed steps that stored their record under the name
Writers(c, name) ==
    { n \in Completed(c) : Truthy(StepOf(c, n).result) /\ StepOf(c, n).result.s = name }

\* the completed output-generator steps that were given a json parameter
JsonWriters(c) ==
    { n \in Completed(c) :
        /\ StepOf(c, n).type = <<"o","u","t","p","u","t","-","g","e","n","e","r","a","t","o","r">>
        /\ Truthy(ConfigGet(StepOf(c, n).config, <<"j","s","o","n">>)) }

Latest(positions) == CHOOSE n \in positions : \A m \in positions : m <= n

\* C30: with the built-in handlers the keys of context.variables are at every
\* point the result names of the steps that completed with a record, plus
\* "json" exactly if an output-generator step with a json parameter has run; a
\* step without a result name adds no key, and a name written again holds the
\* later record.
C30_VariableKeys ==
    \A c \in CallIds :
        pc[c] \in {"loop", "await", "done"} =>
            /\ DOMAIN context[c].variables =
                  { StepOf(c, n).result.s : n \in { m \in Completed(c) : Truthy(StepOf(c, m).result) } }
                      \cup (IF JsonWriters(c) # {} THEN {<<"j","s","o","n">>} ELSE {})
            /\ \A name \in DOMAIN context[c].variables :
                  (Writers(c, name) # {} /\
                   (name = <<"j","s","o","n">> => \A n \in JsonWriters(c) : n < Latest(Writers(c, name)))) =>
                      context[c].variables[name] = settled[c][Latest(Writers(c, name))].value

\* an llm record under a, replaced by the record of an output-generator step
\* that also wrote json
C30_Witness ==
    /\ pc[1] = "done"
    /\ Len(settled[1]) = 2
    /\ Writers(1, <<"a">>) = {1, 2}
    /\ JsonWriters(1) = {2}
    /\ DOMAIN context[1].variables = {<<"a">>, <<"j","s","o","n">>}
    /\ context[1].variables[<<"a">>] = settled[1][2].value
    /\ settled[1][1].value # settled[1][2].value
====
